---- MODULE Spec2Model ----
(***************************************************************************)
(* MySensorsTracker: the OTA firmware manager (ota_firmware.py) and the    *)
(* gateway side of app.py (listener thread, line decoding and dispatch,    *)
(* sends) as a state machine.  The state is the firmware catalog and the   *)
(* three node maps of OTAFirmwareManager, the globals of app.py and the    *)
(* position of the listener thread.  Every public method of the manager,   *)
(* every blocking call of the listener and every route of the operator is  *)
(* one action.  The manager call a step made and its return value (call,   *)
(* ret), what the step did with a line (trace) and what it wrote to the    *)
(* socket (wire_out) are kept in the state so that properties can speak    *)
(* about inputs and results.                                               *)
(*                                                                         *)
(* Spec is the manager alone, SpecGw the listener on the full set of       *)
(* lines, SpecConn the life cycle of the connection, SpecExit the listener *)
(* thread ended by sys.exit, SpecQueue the event queues filling up,        *)
(* SpecLoad the loading of files of many lengths, SpecRace the calls of    *)
(* two threads into the manager, statement by statement, SpecSplit the     *)
(* listener on reads that end inside a line, SpecTransfer the manager in   *)
(* the middle of a transfer and SpecSend a send of the operator against    *)
(* the listener's loop, statement by statement.                            *)
(***************************************************************************)
EXTENDS Integers, Sequences, FiniteSets, TLC

VARIABLES firmware_store, requested_nodes, unstarted_nodes, started_nodes,
          call, ret,
          gateway_socket, gateway_running, pc, buffer, sleep_s,
          last_message, last_time, now, wire_out, trace,
          message_queue, sensor_queue, node_queue, frames

vars == <<firmware_store, requested_nodes, unstarted_nodes, started_nodes,
          call, ret,
          gateway_socket, gateway_running, pc, buffer, sleep_s,
          last_message, last_time, now, wire_out, trace,
          message_queue, sensor_queue, node_queue, frames>>

(* the event queues of app.py that every decoded line is offered to; the   *)
(* state of a queue is the number of events it holds                       *)
queues == <<message_queue, sensor_queue, node_queue>>

(* the globals of app.py and the state of its listener thread *)
gateway_vars == <<gateway_socket, gateway_running, pc, buffer, sleep_s,
                  last_message, last_time, now, wire_out, trace, queues>>

registry == <<requested_nodes, unstarted_nodes, started_nodes>>

(***************************************************************************)
(* Bounds of the model.                                                    *)
(***************************************************************************)
MaxNode == 2
MaxClock == 2

Nodes == 1..MaxNode

(* firmware types and versions the operator and the nodes use; 258 =      *)
(* 0x0102 makes the byte order of a 16-bit word visible                    *)
FwTypes == {1, 258}
FwVers == {1}

(***************************************************************************)
(* Python values.                                                          *)
(***************************************************************************)
None == <<"None">>
True == <<"True">>
False == <<"False">>

(* an argument handed to int(): an integer, or a string that is no number *)
IntArg(n) == <<"int", n>>
StrArg == <<"str", 0>>

int_raises(x) == x[1] # "int"
to_int(x) == x[2]

(* dict.get(key) with the default None *)
dict_get(d, k) == IF k \in DOMAIN d THEN d[k] ELSE None

(* variant of dict_pop: the pop is forgotten *)
dict_pop_forgotten(d, k) == d

(* dict.pop(key, None), as the dict that is left *)
dict_pop(d, k) == [x \in (DOMAIN d) \ {k} |-> d[x]]

(* d[key] = value *)
dict_set(d, k, v) == [x \in (DOMAIN d) \cup {k} |-> IF x = k THEN v ELSE d[x]]

(* truth value of a tuple or None, as used by "a or b" *)
truthy(x) == x # None /\ Len(x) > 0

py_or(a, b) == IF truthy(a) THEN a ELSE b

(***************************************************************************)
(* binascii.hexlify / unhexlify and struct.pack / unpack ("<nH").          *)
(* A hex string is a sequence of one-character strings, a byte string a    *)
(* sequence of integers 0..255.                                            *)
(***************************************************************************)
HexChars == <<"0", "1", "2", "3", "4", "5", "6", "7",
              "8", "9", "a", "b", "c", "d", "e", "f">>

HexVal(c) ==
    CASE c = "0" -> 0  [] c = "1" -> 1  [] c = "2" -> 2  [] c = "3" -> 3
      [] c = "4" -> 4  [] c = "5" -> 5  [] c = "6" -> 6  [] c = "7" -> 7
      [] c = "8" -> 8  [] c = "9" -> 9
      [] c = "a" -> 10 [] c = "b" -> 11 [] c = "c" -> 12
      [] c = "d" -> 13 [] c = "e" -> 14 [] c = "f" -> 15
      [] c = "A" -> 10 [] c = "B" -> 11 [] c = "C" -> 12
      [] c = "D" -> 13 [] c = "E" -> 14 [] c = "F" -> 15
      [] OTHER -> -1

hexlify(bs) ==
    [i \in 1..(2 * Len(bs)) |->
        IF i % 2 = 1 THEN HexChars[(bs[(i + 1) \div 2] \div 16) + 1]
                     ELSE HexChars[(bs[(i + 1) \div 2] % 16) + 1]]

unhexlify_raises(s) ==
    \/ Len(s) % 2 = 1
    \/ \E i \in 1..Len(s) : HexVal(s[i]) = -1

unhexlify(s) ==
    [i \in 1..(Len(s) \div 2) |-> 16 * HexVal(s[2 * i - 1]) + HexVal(s[2 * i])]

struct_pack_raises(ws) == \E i \in 1..Len(ws) : ws[i] < 0 \/ ws[i] > 65535

(* variant of struct_pack: big-endian words (">nH") *)
struct_pack_big_endian(ws) ==
    [i \in 1..(2 * Len(ws)) |->
        IF i % 2 = 1 THEN ws[(i + 1) \div 2] \div 256
                     ELSE ws[(i + 1) \div 2] % 256]

struct_pack(ws) ==
    [i \in 1..(2 * Len(ws)) |->
        IF i % 2 = 1 THEN ws[(i + 1) \div 2] % 256
                     ELSE ws[(i + 1) \div 2] \div 256]

(* variant of struct_unpack_raises: bytes after the last word are let pass *)
struct_unpack_accepts_longer(words, bs) == Len(bs) < 2 * words

struct_unpack_raises(words, bs) == Len(bs) # 2 * words

struct_unpack(words, bs) ==
    [i \in 1..words |-> bs[2 * i - 1] + 256 * bs[2 * i]]

fw_hex_to_int_raises(hex_str, words) ==
    \/ unhexlify_raises(hex_str)
    \/ struct_unpack_raises(words, unhexlify(hex_str))

fw_hex_to_int(hex_str, words) == struct_unpack(words, unhexlify(hex_str))

fw_int_to_hex_raises(args) == struct_pack_raises(args)

fw_int_to_hex(args) == hexlify(struct_pack(args))

(***************************************************************************)
(* compute_crc16: CRC16 MODBUS (crcmod predefined 'modbus': reflected      *)
(* polynomial 0xA001, initial value 0xFFFF, no final xor).                 *)
(***************************************************************************)
CrcPoly == 40961
CrcInit == 65535

RECURSIVE Xor(_, _)
Xor(a, b) ==
    IF a = 0 THEN b
    ELSE IF b = 0 THEN a
    ELSE (((a % 2) + (b % 2)) % 2) + 2 * Xor(a \div 2, b \div 2)

RECURSIVE CrcShift(_, _)
CrcShift(crc, k) ==
    IF k = 0 THEN crc
    ELSE CrcShift(IF crc % 2 = 1 THEN Xor(crc \div 2, CrcPoly) ELSE crc \div 2,
                  k - 1)

(* the bytes data[lo..hi] fed into crc in order; the range is halved and   *)
(* the left half is evaluated first (a CRC is never negative) to keep the  *)
(* evaluation shallow                                                      *)
RECURSIVE CrcRange(_, _, _, _)
CrcRange(crc, data, lo, hi) ==
    IF lo > hi THEN crc
    ELSE IF lo = hi THEN CrcShift(Xor(crc, data[lo]), 8)
    ELSE LET mid == (lo + hi) \div 2
             left == CrcRange(crc, data, lo, mid)
         IN  IF left < 0 THEN left ELSE CrcRange(left, data, mid + 1, hi)

compute_crc16(data) == CrcRange(CrcInit, data, 1, Len(data))

(***************************************************************************)
(* prepare_firmware: pad with 0xff, count the blocks, compute the CRC.     *)
(***************************************************************************)
FIRMWARE_BLOCK_SIZE == 16
PageSize == 128
PadByte == 255

(* variant of prepare_firmware: the image is padded to whole blocks of 16  *)
(* bytes, not to whole pages                                               *)
prepare_firmware_pads_to_block(bin_string) ==
    LET pads == Len(bin_string) % FIRMWARE_BLOCK_SIZE
        padded == bin_string \o [i \in 1..((FIRMWARE_BLOCK_SIZE - pads)
                                              % FIRMWARE_BLOCK_SIZE) |-> PadByte]
    IN  [blocks |-> Len(padded) \div FIRMWARE_BLOCK_SIZE,
         crc    |-> compute_crc16(padded),
         data   |-> padded]

(* variant of prepare_firmware: the image is stored as it was read *)
prepare_firmware_unpadded(bin_string) ==
    [blocks |-> Len(bin_string) \div FIRMWARE_BLOCK_SIZE,
     crc    |-> compute_crc16(bin_string),
     data   |-> bin_string]

prepare_firmware(bin_string) ==
    LET pads == Len(bin_string) % PageSize
        padded == bin_string \o [i \in 1..(PageSize - pads) |-> PadByte]
    IN  [blocks |-> Len(padded) \div FIRMWARE_BLOCK_SIZE,
         crc    |-> compute_crc16(padded),
         data   |-> padded]

(***************************************************************************)
(* The firmware files the operator can upload, by path.  load_firmware     *)
(* (path) of the source returns None for a file that cannot be read or is  *)
(* no valid Intel HEX, and the binary string of the file otherwise.        *)
(* Path 0 is such an unreadable file, path 1 holds no data bytes, path 2   *)
(* holds 100 raw bytes and path 3 holds 128 raw bytes.                     *)
(***************************************************************************)
RawImage(len, seed) == [i \in 1..len |-> (37 * i + seed) % 255]

FileContent ==
    <<None, <<>>, RawImage(100, 3), RawImage(128, 90)>>

Paths == 0..(Len(FileContent) - 1)

load_firmware_file(path) == FileContent[path + 1]

(* "not fw_bin": None or an empty binary string *)
fw_bin_falsy(fw_bin) == Len(fw_bin) = 0 \/ fw_bin = None

(* prepare_firmware(load_firmware(path)) of every file that has data,      *)
(* tabulated by path so that the CRC of a file is computed once            *)
PreparedFile ==
    [p \in {q \in Paths : ~fw_bin_falsy(load_firmware_file(q))} |->
        prepare_firmware(load_firmware_file(p))]

(***************************************************************************)
(* The inputs of the operations.                                           *)
(***************************************************************************)
(* the operator pages hand integers to load_firmware and delete_firmware;  *)
(* request_update is also called with an argument that is no number        *)
TypeArgs == {IntArg(t) : t \in FwTypes}
VerArgs == {IntArg(v) : v \in FwVers}
UpdateTypeArgs == TypeArgs \cup {StrArg}

(* block indices a node asks for: the first block, and block 8, which lies *)
(* past the end of the small image and inside the large one                *)
BlockIdx == {0, 8}

(* config requests: two well-formed ones (the second in upper-case hex), a *)
(* 3-word one, one of odd length and one that is not hex                   *)
ConfigPayloads ==
    { fw_int_to_hex(<<1, 1, 8, 0, 3>>),
      <<"0", "2", "0", "1", "0", "1", "0", "0", "1", "0", "0", "0",
        "C", "D", "A", "B", "0", "2", "0", "1">>,
      fw_int_to_hex(<<1, 1, 0>>),
      <<"0", "1", "0">>,
      [i \in 1..20 |-> "g"] }

(* block requests: every declared id and index, and a 5-word one           *)
BlockPayloads ==
    { fw_int_to_hex(<<t, v, i>>) : t \in FwTypes, v \in FwVers, i \in BlockIdx }
    \cup { fw_int_to_hex(<<1, 1, 8, 0, 3>>) }

(* the record of a call: the method, its arguments and the local fw_id of  *)
(* the two request handlers                                                *)
Call(op, node_id, fw_type, fw_ver, fw_path, payload, fw_id) ==
    [op |-> op, node_id |-> node_id, fw_type |-> fw_type, fw_ver |-> fw_ver,
     fw_path |-> fw_path, payload |-> payload, fw_id |-> fw_id]

(* the value of ret when a method left by an exception *)
Raised == <<"raise">>

IsPayload(r) == r # None /\ r # Raised

(* frames: for the operator's thread and the listener thread, the call of  *)
(* a manager method the thread is inside of: the line it executes next     *)
(* (pc, "idle" outside a call), the arguments and the local fw_id.  A call *)
(* that runs with no step of the other thread in between is one action and *)
(* leaves frames as it is.                                                 *)
Frame(at, node_id, arg, fw_id) ==
    [pc |-> at, node_id |-> node_id, arg |-> arg, fw_id |-> fw_id]

(* no thread is inside the manager *)
IdleFrames ==
    [operator |-> Frame("idle", 0, <<>>, None),
     listener |-> Frame("idle", 0, <<>>, None)]

(***************************************************************************)
(* The gateway side of app.py.  A text string is a sequence of             *)
(* one-character strings; the functions below are str(), str.strip(),      *)
(* str.split() and int() of Python, as far as the listener uses them.      *)
(***************************************************************************)
Digits == <<"0", "1", "2", "3", "4", "5", "6", "7", "8", "9">>

Whitespace == {" ", "\t", "\r", "\n"}

(* f"{n}" of a non-negative integer *)
RECURSIVE py_str(_)
py_str(n) ==
    IF n < 10 THEN <<Digits[n + 1]>>
    ELSE py_str(n \div 10) \o <<Digits[(n % 10) + 1]>>

py_strip(s) ==
    LET keep == {i \in 1..Len(s) : s[i] \notin Whitespace}
    IN  IF keep = {} THEN <<>>
        ELSE SubSeq(s, CHOOSE i \in keep : \A j \in keep : i <= j,
                       CHOOSE i \in keep : \A j \in keep : j <= i)

(* the index of the first occurrence of character c in s, 0 if there is none *)
py_find(s, c) ==
    IF \A i \in 1..Len(s) : s[i] # c THEN 0
    ELSE CHOOSE i \in 1..Len(s) : s[i] = c /\ \A j \in 1..(i - 1) : s[j] # c

RECURSIVE py_split(_, _)
py_split(s, sep) ==
    IF py_find(s, sep) = 0 THEN <<s>>
    ELSE <<SubSeq(s, 1, py_find(s, sep) - 1)>>
             \o py_split(SubSeq(s, py_find(s, sep) + 1, Len(s)), sep)

(* int(s): optional sign, then decimal digits, surrounding blanks ignored *)
py_int_digits(s) ==
    IF py_strip(s) # <<>> /\ py_strip(s)[1] \in {"-", "+"}
    THEN Tail(py_strip(s)) ELSE py_strip(s)

(* variant of py_int_raises: int() never raises *)
py_int_never_raises(s) == FALSE

py_int_raises(s) ==
    \/ py_int_digits(s) = <<>>
    \/ \E i \in 1..Len(py_int_digits(s)) : HexVal(py_int_digits(s)[i]) \notin 0..9

RECURSIVE py_decimal(_)
py_decimal(ds) ==
    IF ds = <<>> THEN 0
    ELSE 10 * py_decimal(SubSeq(ds, 1, Len(ds) - 1)) + HexVal(ds[Len(ds)])

py_int(s) ==
    IF py_strip(s)[1] = "-" THEN 0 - py_decimal(py_int_digits(s))
    ELSE py_decimal(py_int_digits(s))

(***************************************************************************)
(* Message numbers of the mysensors module and the message format          *)
(* node-id;child-sensor-id;command;ack;type;payload.                       *)
(***************************************************************************)
C_PRESENTATION == 0
C_SET == 2
C_INTERNAL == 3
C_STREAM == 4
I_BATTERY_LEVEL == 0
I_REBOOT == 13
I_PRESENTATION == 19
I_HEARTBEAT_RESPONSE == 22
I_POST_SLEEP_NOTIFICATION == 33
ST_FIRMWARE_CONFIG_REQUEST == 0
ST_FIRMWARE_CONFIG_RESPONSE == 1
ST_FIRMWARE_REQUEST == 2
ST_FIRMWARE_RESPONSE == 3

(* f"{node_id};{child_id};{command};{ack};{msg_type};{payload}" *)
format_message(node_id, child_id, command, ack, msg_type, payload) ==
    py_str(node_id) \o <<";">> \o py_str(child_id) \o <<";">>
        \o py_str(command) \o <<";">> \o py_str(ack) \o <<";">>
        \o py_str(msg_type) \o <<";">> \o payload

(* a socket object in one of the states unconnected, connected, closed *)
Socket(state) == <<"socket", state>>

(***************************************************************************)
(* Queue(maxsize=100) and put_nowait, which raises queue.Full on a full    *)
(* queue; every put_nowait of app.py sits in a try with a bare except that *)
(* passes.                                                                 *)
(***************************************************************************)
maxsize == 100

put_nowait_raises(qsize) == qsize >= maxsize

(* variant of put_nowait: the queue takes the event whatever it holds *)
put_nowait_unbounded(qsize) == qsize + 1

(* the size of the queue after try: put_nowait(...) except: pass *)
put_nowait(qsize) == IF put_nowait_raises(qsize) THEN qsize ELSE qsize + 1

(* what the last step did: the operation, the stripped line it processed,  *)
(* how process_gateway_message left, the fields handed to add_message and  *)
(* message_queue, the handler that ran, the message passed to              *)
(* send_message_to_gateway and what became of it, and the queues that were *)
(* full when the step began (an event offered to them was dropped)         *)
Trace(op, line, outcome, event, handler, msg, send) ==
    [op |-> op, line |-> line, outcome |-> outcome, event |-> event,
     handler |-> handler, msg |-> msg, send |-> send,
     full |-> {q \in {"message_queue", "sensor_queue", "node_queue"} :
                 put_nowait_raises(CASE q = "message_queue" -> message_queue
                                     [] q = "sensor_queue" -> sensor_queue
                                     [] q = "node_queue" -> node_queue)}]

NoTrace(op) == Trace(op, <<>>, "none", None, "none", <<>>, "none")

NoCall == Call("init", 0, None, None, 0, <<>>, None)

(***************************************************************************)
(* send_message_to_gateway: the outcome of one call.  sendall succeeds     *)
(* or raises (send_ok) on a connected socket and raises on any other;      *)
(* the exception is logged and gateway_socket is left as it is.            *)
(***************************************************************************)
(* variant of send_message_to_gateway: without a socket the call raises *)
send_message_to_gateway_raises(message, send_ok) ==
    IF truthy(gateway_socket)
    THEN IF gateway_socket = Socket("connected") /\ send_ok
         THEN "written" ELSE "failed"
    ELSE "raised"

send_message_to_gateway(message, send_ok) ==
    IF truthy(gateway_socket)
    THEN IF gateway_socket = Socket("connected") /\ send_ok
         THEN "written" ELSE "failed"
    ELSE "dropped"

(* the bytes that a send puts on the wire *)
Written(message, send) == IF send = "written" THEN <<message \o <<"\n">>>> ELSE <<>>

(* the message send_reboot_request(node_id, request_ack) passes to          *)
(* send_message_to_gateway                                                 *)
send_reboot_request(node_id, request_ack) ==
    format_message(node_id, 255, C_INTERNAL, IF request_ack THEN 1 ELSE 0,
                   I_REBOOT, <<>>)

(* the globals of app.py when main() has started the listener thread *)
gateway_init ==
    /\ gateway_socket = None
    /\ gateway_running = TRUE
    /\ pc = "loop"
    /\ buffer = <<>>
    /\ sleep_s = 0
    /\ last_message = <<>>
    /\ last_time = 0
    /\ now = 0
    /\ wire_out = <<>>
    /\ trace = NoTrace("init")

(***************************************************************************)
(* OTAFirmwareManager.__init__                                             *)
(***************************************************************************)
Init ==
    /\ firmware_store = <<>>
    /\ requested_nodes = <<>>
    /\ unstarted_nodes = <<>>
    /\ started_nodes = <<>>
    /\ call = Call("init", 0, None, None, 0, <<>>, None)
    /\ ret = None
    /\ message_queue = 0
    /\ sensor_queue = 0
    /\ node_queue = 0
    /\ gateway_init
    /\ frames = IdleFrames

(***************************************************************************)
(* OTAFirmwareManager.load_firmware                                        *)
(***************************************************************************)
load_firmware(fw_type, fw_ver, fw_path) ==
    /\ call' = Call("load_firmware", 0, fw_type, fw_ver, fw_path, <<>>, None)
    /\ UNCHANGED registry
    /\ IF int_raises(fw_type) \/ int_raises(fw_ver)
       THEN /\ ret' = False
            /\ UNCHANGED firmware_store
       ELSE LET fw_bin == load_firmware_file(fw_path) IN
            IF fw_bin_falsy(fw_bin)
            THEN /\ ret' = False
                 /\ UNCHANGED firmware_store
            ELSE /\ firmware_store' =
                        dict_set(firmware_store,
                                 <<to_int(fw_type), to_int(fw_ver)>>,
                                 PreparedFile[fw_path])
                 /\ ret' = True

(***************************************************************************)
(* OTAFirmwareManager.delete_firmware                                      *)
(***************************************************************************)
(* variant: deleting a firmware also drops the nodes scheduled for it *)
delete_firmware_purges_nodes(fw_type, fw_ver) ==
    /\ call' = Call("delete_firmware", 0, fw_type, fw_ver, 0, <<>>, None)
    /\ ret' = None
    /\ IF int_raises(fw_type) \/ int_raises(fw_ver)
       THEN UNCHANGED registry
       ELSE LET kept(d) == [n \in {x \in DOMAIN d :
                                      d[x] # <<to_int(fw_type), to_int(fw_ver)>>} |-> d[n]]
            IN  /\ requested_nodes' = kept(requested_nodes)
                /\ unstarted_nodes' = kept(unstarted_nodes)
                /\ started_nodes' = kept(started_nodes)
    /\ IF int_raises(fw_type) \/ int_raises(fw_ver)
       THEN UNCHANGED firmware_store
       ELSE IF <<to_int(fw_type), to_int(fw_ver)>> \in DOMAIN firmware_store
            THEN firmware_store' =
                     dict_pop(firmware_store, <<to_int(fw_type), to_int(fw_ver)>>)
            ELSE UNCHANGED firmware_store

delete_firmware(fw_type, fw_ver) ==
    /\ call' = Call("delete_firmware", 0, fw_type, fw_ver, 0, <<>>, None)
    /\ ret' = None
    /\ UNCHANGED registry
    /\ IF int_raises(fw_type) \/ int_raises(fw_ver)
       THEN UNCHANGED firmware_store
       ELSE IF <<to_int(fw_type), to_int(fw_ver)>> \in DOMAIN firmware_store
            THEN firmware_store' =
                     dict_pop(firmware_store, <<to_int(fw_type), to_int(fw_ver)>>)
            ELSE UNCHANGED firmware_store

(***************************************************************************)
(* OTAFirmwareManager.request_update                                       *)
(***************************************************************************)
(* variant: the other phases are cleared for every node *)
request_update_clears_maps(node_id, fw_type, fw_ver) ==
    /\ call' = Call("request_update", node_id, fw_type, fw_ver, 0, <<>>, None)
    /\ UNCHANGED firmware_store
    /\ IF int_raises(fw_type) \/ int_raises(fw_ver)
       THEN /\ ret' = False
            /\ UNCHANGED registry
       ELSE IF <<to_int(fw_type), to_int(fw_ver)>> \notin DOMAIN firmware_store
            THEN /\ ret' = False
                 /\ UNCHANGED registry
            ELSE /\ unstarted_nodes' = <<>>
                 /\ started_nodes' = <<>>
                 /\ requested_nodes' =
                        dict_set(requested_nodes, node_id,
                                 <<to_int(fw_type), to_int(fw_ver)>>)
                 /\ ret' = True

(* variant: the catalog is not consulted *)
request_update_unchecked(node_id, fw_type, fw_ver) ==
    /\ call' = Call("request_update", node_id, fw_type, fw_ver, 0, <<>>, None)
    /\ UNCHANGED firmware_store
    /\ IF int_raises(fw_type) \/ int_raises(fw_ver)
       THEN /\ ret' = False
            /\ UNCHANGED registry
       ELSE      /\ unstarted_nodes' = dict_pop(unstarted_nodes, node_id)
                 /\ started_nodes' = dict_pop(started_nodes, node_id)
                 /\ requested_nodes' =
                        dict_set(requested_nodes, node_id,
                                 <<to_int(fw_type), to_int(fw_ver)>>)
                 /\ ret' = True

request_update(node_id, fw_type, fw_ver) ==
    /\ call' = Call("request_update", node_id, fw_type, fw_ver, 0, <<>>, None)
    /\ UNCHANGED firmware_store
    /\ IF int_raises(fw_type) \/ int_raises(fw_ver)
       THEN /\ ret' = False
            /\ UNCHANGED registry
       ELSE IF <<to_int(fw_type), to_int(fw_ver)>> \notin DOMAIN firmware_store
            THEN /\ ret' = False
                 /\ UNCHANGED registry
            ELSE /\ unstarted_nodes' = dict_pop(unstarted_nodes, node_id)
                 /\ started_nodes' = dict_pop(started_nodes, node_id)
                 /\ requested_nodes' =
                        dict_set(requested_nodes, node_id,
                                 <<to_int(fw_type), to_int(fw_ver)>>)
                 /\ ret' = True

(***************************************************************************)
(* OTAFirmwareManager.handle_firmware_config_request                       *)
(***************************************************************************)
(* variant: the entry in requested_nodes is not dropped *)
handle_firmware_config_request_keeps_requested(node_id, payload) ==
    /\ UNCHANGED <<firmware_store, started_nodes>>
    /\ IF fw_hex_to_int_raises(payload, 5)
       THEN /\ call' = Call("config_request", node_id, None, None, 0, payload, None)
            /\ ret' = None
            /\ UNCHANGED <<requested_nodes, unstarted_nodes>>
       ELSE LET fw_id == py_or(dict_get(requested_nodes, node_id),
                               dict_get(unstarted_nodes, node_id))
            IN
            /\ call' = Call("config_request", node_id, None, None, 0, payload, fw_id)
            /\ IF fw_id = None
               THEN /\ ret' = None
                    /\ UNCHANGED <<requested_nodes, unstarted_nodes>>
               ELSE LET fw_type == fw_id[1]
                        fw_ver == fw_id[2]
                        fware == firmware_store[<<fw_type, fw_ver>>]
                    IN
                    IF <<fw_type, fw_ver>> \notin DOMAIN firmware_store
                    THEN /\ ret' = None
                         /\ UNCHANGED <<requested_nodes, unstarted_nodes>>
                    ELSE /\ requested_nodes' = requested_nodes
                         /\ unstarted_nodes' =
                                dict_set(unstarted_nodes, node_id, <<fw_type, fw_ver>>)
                         /\ ret' =
                                IF fw_int_to_hex_raises(
                                       <<fw_type, fw_ver, fware.blocks, fware.crc>>)
                                THEN Raised
                                ELSE fw_int_to_hex(
                                       <<fw_type, fw_ver, fware.blocks, fware.crc>>)

(* variant: a node in started_nodes counts as scheduled too *)
handle_firmware_config_request_any_phase(node_id, payload) ==
    /\ UNCHANGED <<firmware_store, started_nodes>>
    /\ IF fw_hex_to_int_raises(payload, 5)
       THEN /\ call' = Call("config_request", node_id, None, None, 0, payload, None)
            /\ ret' = None
            /\ UNCHANGED <<requested_nodes, unstarted_nodes>>
       ELSE LET fw_id == py_or(dict_get(requested_nodes, node_id),
                               py_or(dict_get(unstarted_nodes, node_id),
                                     dict_get(started_nodes, node_id)))
            IN
            /\ call' = Call("config_request", node_id, None, None, 0, payload, fw_id)
            /\ IF fw_id = None
               THEN /\ ret' = None
                    /\ UNCHANGED <<requested_nodes, unstarted_nodes>>
               ELSE LET fw_type == fw_id[1]
                        fw_ver == fw_id[2]
                        fware == firmware_store[<<fw_type, fw_ver>>]
                    IN
                    IF <<fw_type, fw_ver>> \notin DOMAIN firmware_store
                    THEN /\ ret' = None
                         /\ UNCHANGED <<requested_nodes, unstarted_nodes>>
                    ELSE /\ requested_nodes' = dict_pop(requested_nodes, node_id)
                         /\ unstarted_nodes' =
                                dict_set(unstarted_nodes, node_id, <<fw_type, fw_ver>>)
                         /\ ret' =
                                IF fw_int_to_hex_raises(
                                       <<fw_type, fw_ver, fware.blocks, fware.crc>>)
                                THEN Raised
                                ELSE fw_int_to_hex(
                                       <<fw_type, fw_ver, fware.blocks, fware.crc>>)

(* variant: a node that reports the target firmware already is not served *)
handle_firmware_config_request_skips_current(node_id, payload) ==
    /\ UNCHANGED <<firmware_store, started_nodes>>
    /\ IF fw_hex_to_int_raises(payload, 5)
       THEN /\ call' = Call("config_request", node_id, None, None, 0, payload, None)
            /\ ret' = None
            /\ UNCHANGED <<requested_nodes, unstarted_nodes>>
       ELSE LET fw_id == py_or(dict_get(requested_nodes, node_id),
                               dict_get(unstarted_nodes, node_id))
                req == fw_hex_to_int(payload, 5)
            IN
            /\ call' = Call("config_request", node_id, None, None, 0, payload, fw_id)
            /\ IF \/ fw_id = None
                  \/ fw_id \notin DOMAIN firmware_store
                  \/ fw_id = <<req[1], req[2]>>
               THEN /\ ret' = None
                    /\ UNCHANGED <<requested_nodes, unstarted_nodes>>
               ELSE /\ requested_nodes' = dict_pop(requested_nodes, node_id)
                    /\ unstarted_nodes' = dict_set(unstarted_nodes, node_id, fw_id)
                    /\ ret' =
                           IF fw_int_to_hex_raises(
                                  <<fw_id[1], fw_id[2], firmware_store[fw_id].blocks,
                                    firmware_store[fw_id].crc>>)
                           THEN Raised
                           ELSE fw_int_to_hex(
                                  <<fw_id[1], fw_id[2], firmware_store[fw_id].blocks,
                                    firmware_store[fw_id].crc>>)

handle_firmware_config_request(node_id, payload) ==
    /\ UNCHANGED <<firmware_store, started_nodes>>
    /\ IF fw_hex_to_int_raises(payload, 5)
       THEN /\ call' = Call("config_request", node_id, None, None, 0, payload, None)
            /\ ret' = None
            /\ UNCHANGED <<requested_nodes, unstarted_nodes>>
       ELSE LET fw_id == py_or(dict_get(requested_nodes, node_id),
                               dict_get(unstarted_nodes, node_id))
            IN
            /\ call' = Call("config_request", node_id, None, None, 0, payload, fw_id)
            /\ IF fw_id = None
               THEN /\ ret' = None
                    /\ UNCHANGED <<requested_nodes, unstarted_nodes>>
               ELSE LET fw_type == fw_id[1]
                        fw_ver == fw_id[2]
                        fware == firmware_store[<<fw_type, fw_ver>>]
                    IN
                    IF <<fw_type, fw_ver>> \notin DOMAIN firmware_store
                    THEN /\ ret' = None
                         /\ UNCHANGED <<requested_nodes, unstarted_nodes>>
                    ELSE /\ requested_nodes' = dict_pop(requested_nodes, node_id)
                         /\ unstarted_nodes' =
                                dict_set(unstarted_nodes, node_id, <<fw_type, fw_ver>>)
                         /\ ret' =
                                IF fw_int_to_hex_raises(
                                       <<fw_type, fw_ver, fware.blocks, fware.crc>>)
                                THEN Raised
                                ELSE fw_int_to_hex(
                                       <<fw_type, fw_ver, fware.blocks, fware.crc>>)

(***************************************************************************)
(* OTAFirmwareManager.handle_firmware_request                              *)
(***************************************************************************)
(* variant of py_slice: a start past the end is clamped to the last block *)
py_slice_clamps_start(data, start, end) ==
    IF start >= Len(data)
    THEN SubSeq(data, Len(data) - 15, Len(data))
    ELSE SubSeq(data, start + 1, IF end < Len(data) THEN end ELSE Len(data))

(* variant of py_slice: the slice runs to the end of the data *)
py_slice_to_end(data, start, end) ==
    SubSeq(data, start + 1, Len(data))

(* variant of py_slice: the slice starts one byte late *)
py_slice_off_by_one(data, start, end) ==
    SubSeq(data, start + 2, IF end + 1 < Len(data) THEN end + 1 ELSE Len(data))

(* data[start:end] of a byte string *)
py_slice(data, start, end) ==
    SubSeq(data, start + 1, IF end < Len(data) THEN end ELSE Len(data))

(* variant: a node in requested_nodes is served too *)
handle_firmware_request_any_phase(node_id, payload) ==
    /\ UNCHANGED <<firmware_store, requested_nodes>>
    /\ IF fw_hex_to_int_raises(payload, 3)
       THEN /\ call' = Call("block_request", node_id, None, None, 0, payload, None)
            /\ ret' = None
            /\ UNCHANGED <<unstarted_nodes, started_nodes>>
       ELSE LET req == fw_hex_to_int(payload, 3)
                req_fw_type == req[1]
                req_fw_ver == req[2]
                req_block == req[3]
                fw_id == py_or(dict_get(requested_nodes, node_id),
                               py_or(dict_get(unstarted_nodes, node_id),
                                     dict_get(started_nodes, node_id)))
            IN
            /\ call' = Call("block_request", node_id, None, None, 0, payload, fw_id)
            /\ IF fw_id = None
               THEN /\ ret' = None
                    /\ UNCHANGED <<unstarted_nodes, started_nodes>>
               ELSE LET fw_type == req_fw_type
                        fw_ver == req_fw_ver
                        fware == firmware_store[<<fw_type, fw_ver>>]
                    IN
                    IF <<fw_type, fw_ver>> \notin DOMAIN firmware_store
                    THEN /\ ret' = None
                         /\ UNCHANGED <<unstarted_nodes, started_nodes>>
                    ELSE LET start == req_block * FIRMWARE_BLOCK_SIZE
                             end == start + FIRMWARE_BLOCK_SIZE
                             blk_data == py_slice(fware.data, start, end)
                         IN
                         /\ unstarted_nodes' = dict_pop(unstarted_nodes, node_id)
                         /\ started_nodes' =
                                dict_set(started_nodes, node_id, <<fw_type, fw_ver>>)
                         /\ ret' =
                                IF fw_int_to_hex_raises(<<fw_type, fw_ver, req_block>>)
                                THEN Raised
                                ELSE fw_int_to_hex(<<fw_type, fw_ver, req_block>>)
                                         \o hexlify(blk_data)

(* variant: the image is picked by the target the registry holds *)
handle_firmware_request_stored_target(node_id, payload) ==
    /\ UNCHANGED <<firmware_store, requested_nodes>>
    /\ IF fw_hex_to_int_raises(payload, 3)
       THEN /\ call' = Call("block_request", node_id, None, None, 0, payload, None)
            /\ ret' = None
            /\ UNCHANGED <<unstarted_nodes, started_nodes>>
       ELSE LET req == fw_hex_to_int(payload, 3)
                req_fw_type == req[1]
                req_fw_ver == req[2]
                req_block == req[3]
                fw_id == py_or(dict_get(unstarted_nodes, node_id),
                               dict_get(started_nodes, node_id))
            IN
            /\ call' = Call("block_request", node_id, None, None, 0, payload, fw_id)
            /\ IF fw_id = None
               THEN /\ ret' = None
                    /\ UNCHANGED <<unstarted_nodes, started_nodes>>
               ELSE LET fw_type == fw_id[1]
                        fw_ver == fw_id[2]
                        fware == firmware_store[<<fw_type, fw_ver>>]
                    IN
                    IF <<fw_type, fw_ver>> \notin DOMAIN firmware_store
                    THEN /\ ret' = None
                         /\ UNCHANGED <<unstarted_nodes, started_nodes>>
                    ELSE LET start == req_block * FIRMWARE_BLOCK_SIZE
                             end == start + FIRMWARE_BLOCK_SIZE
                             blk_data == py_slice(fware.data, start, end)
                         IN
                         /\ unstarted_nodes' = dict_pop(unstarted_nodes, node_id)
                         /\ started_nodes' =
                                dict_set(started_nodes, node_id, <<fw_type, fw_ver>>)
                         /\ ret' =
                                IF fw_int_to_hex_raises(<<fw_type, fw_ver, req_block>>)
                                THEN Raised
                                ELSE fw_int_to_hex(<<fw_type, fw_ver, req_block>>)
                                         \o hexlify(blk_data)

handle_firmware_request(node_id, payload) ==
    /\ UNCHANGED <<firmware_store, requested_nodes>>
    /\ IF fw_hex_to_int_raises(payload, 3)
       THEN /\ call' = Call("block_request", node_id, None, None, 0, payload, None)
            /\ ret' = None
            /\ UNCHANGED <<unstarted_nodes, started_nodes>>
       ELSE LET req == fw_hex_to_int(payload, 3)
                req_fw_type == req[1]
                req_fw_ver == req[2]
                req_block == req[3]
                fw_id == py_or(dict_get(unstarted_nodes, node_id),
                               dict_get(started_nodes, node_id))
            IN
            /\ call' = Call("block_request", node_id, None, None, 0, payload, fw_id)
            /\ IF fw_id = None
               THEN /\ ret' = None
                    /\ UNCHANGED <<unstarted_nodes, started_nodes>>
               ELSE LET fw_type == req_fw_type
                        fw_ver == req_fw_ver
                        fware == firmware_store[<<fw_type, fw_ver>>]
                    IN
                    IF <<fw_type, fw_ver>> \notin DOMAIN firmware_store
                    THEN /\ ret' = None
                         /\ UNCHANGED <<unstarted_nodes, started_nodes>>
                    ELSE LET start == req_block * FIRMWARE_BLOCK_SIZE
                             end == start + FIRMWARE_BLOCK_SIZE
                             blk_data == py_slice(fware.data, start, end)
                         IN
                         /\ unstarted_nodes' = dict_pop(unstarted_nodes, node_id)
                         /\ started_nodes' =
                                dict_set(started_nodes, node_id, <<fw_type, fw_ver>>)
                         /\ ret' =
                                IF fw_int_to_hex_raises(<<fw_type, fw_ver, req_block>>)
                                THEN Raised
                                ELSE fw_int_to_hex(<<fw_type, fw_ver, req_block>>)
                                         \o hexlify(blk_data)

(***************************************************************************)
(* OTAFirmwareManager.is_reboot_required and get_node_status               *)
(***************************************************************************)
(* variant of is_reboot_required: an Unstarted node counts too *)
is_reboot_required_until_started(node_id) ==
    node_id \in (DOMAIN requested_nodes) \cup (DOMAIN unstarted_nodes)

is_reboot_required(node_id) == node_id \in DOMAIN requested_nodes

get_node_status(node_id) ==
    IF node_id \in DOMAIN requested_nodes THEN "requested"
    ELSE IF node_id \in DOMAIN unstarted_nodes THEN "unstarted"
    ELSE IF node_id \in DOMAIN started_nodes THEN "started"
    ELSE "None"

(***************************************************************************)
(* The operations, called one at a time.                                   *)
(***************************************************************************)
LoadFirmware ==
    \E t \in TypeArgs, v \in VerArgs, p \in Paths : 
        load_firmware(t, v, p) /\ UNCHANGED <<gateway_vars, frames>>

DeleteFirmware ==
    \E t \in TypeArgs, v \in VerArgs : 
        delete_firmware(t, v) /\ UNCHANGED <<gateway_vars, frames>>

RequestUpdate ==
    \E n \in Nodes, t \in UpdateTypeArgs, v \in VerArgs : 
        request_update(n, t, v) /\ UNCHANGED <<gateway_vars, frames>>

ConfigRequest ==
    \E n \in Nodes, p \in ConfigPayloads : 
        handle_firmware_config_request(n, p) /\ UNCHANGED <<gateway_vars, frames>>

BlockRequest ==
    \E n \in Nodes, p \in BlockPayloads : 
        handle_firmware_request(n, p) /\ UNCHANGED <<gateway_vars, frames>>

Next ==
    \/ LoadFirmware
    \/ DeleteFirmware
    \/ RequestUpdate
    \/ ConfigRequest
    \/ BlockRequest

Spec == Init /\ [][Next]_vars

(***************************************************************************)
(* handle_stream_message: the call into the OTA manager and the response   *)
(* line made from the payload the manager returned.                        *)
(***************************************************************************)
handle_stream_message(node_id, child_id, stream_type, payload) ==
    IF stream_type = ST_FIRMWARE_CONFIG_REQUEST
    THEN handle_firmware_config_request(node_id, payload)
    ELSE IF stream_type = ST_FIRMWARE_REQUEST
    THEN handle_firmware_request(node_id, payload)
    ELSE /\ UNCHANGED <<firmware_store, registry>>
         /\ call' = NoCall
         /\ ret' = None

(* variant of stream_response: every response is a block response *)
stream_response_always_block(node_id, stream_type, r) ==
    IF ~IsPayload(r) \/ ~truthy(r) THEN None
    ELSE format_message(node_id, 255, C_STREAM, 0, ST_FIRMWARE_RESPONSE, r)

(* the value handle_stream_message returns when the manager returned r *)
stream_response(node_id, stream_type, r) ==
    IF ~IsPayload(r) \/ ~truthy(r) THEN None
    ELSE IF stream_type = ST_FIRMWARE_CONFIG_REQUEST
    THEN format_message(node_id, 255, C_STREAM, 0, ST_FIRMWARE_CONFIG_RESPONSE, r)
    ELSE format_message(node_id, 255, C_STREAM, 0, ST_FIRMWARE_RESPONSE, r)

(* the handler process_gateway_message picks for a command and child id *)
handler_of(cid, cmd) ==
    IF cmd = C_STREAM THEN "handle_stream_message"
    ELSE IF cmd = C_SET /\ cid # 255 THEN "on_value_message"
    ELSE IF cmd = C_SET /\ cid = 255 THEN "on_node_value_message"
    ELSE IF cmd = C_PRESENTATION /\ cid # 255 THEN "on_presentation_message"
    ELSE IF cmd = C_PRESENTATION /\ cid = 255 THEN "on_node_presentation_message"
    ELSE IF cmd = C_INTERNAL THEN "on_internal_message"
    ELSE "none"

(* a step that calls no method of the OTA manager *)
NoOtaCall ==
    /\ UNCHANGED <<firmware_store, registry, frames>>
    /\ call' = NoCall
    /\ ret' = None

(* process_gateway_message leaves before add_message *)
line_dropped(line, outcome) ==
    /\ trace' = Trace("line", line, outcome, None, "none", <<>>, "none")
    /\ wire_out' = <<>>
    /\ NoOtaCall
    /\ UNCHANGED queues

(* the offers of add_message (sensor_queue, node_queue) and of             *)
(* process_gateway_message (message_queue), lines 493-519 and 811-843      *)
offer_events ==
    /\ sensor_queue' = put_nowait(sensor_queue)
    /\ node_queue' = put_nowait(node_queue)
    /\ message_queue' = put_nowait(message_queue)

(***************************************************************************)
(* process_gateway_message, lines 809-863: add_message and message_queue   *)
(* get the decoded fields, then the handler of the command runs.           *)
(***************************************************************************)
dispatch(line, nid, cid, cmd, typ, val, send_ok) ==
    /\ offer_events
    /\ UNCHANGED frames
    /\ IF cmd = C_STREAM
       THEN /\ handle_stream_message(nid, cid, typ, val)
            /\ LET response == stream_response(nid, typ, ret')
               IN IF truthy(response)
                  THEN /\ trace' = Trace("line", line, "dispatched",
                                         <<nid, cid, cmd, typ, val>>, handler_of(cid, cmd),
                                         response, send_message_to_gateway(response, send_ok))
                       /\ wire_out' = Written(response, trace'.send)
                  ELSE /\ trace' = Trace("line", line, "dispatched",
                                         <<nid, cid, cmd, typ, val>>, handler_of(cid, cmd),
                                         <<>>, "none")
                       /\ wire_out' = <<>>
       ELSE IF /\ cmd = C_INTERNAL
               /\ typ = I_HEARTBEAT_RESPONSE \/ typ = I_POST_SLEEP_NOTIFICATION
       THEN /\ UNCHANGED <<firmware_store, registry>>
            /\ call' = Call("is_reboot_required", nid, None, None, 0, <<>>, None)
            /\ ret' = IF is_reboot_required(nid) THEN True ELSE False
            /\ IF is_reboot_required(nid)
               THEN /\ trace' = Trace("line", line, "dispatched",
                                      <<nid, cid, cmd, typ, val>>, handler_of(cid, cmd),
                                      send_reboot_request(nid, FALSE),
                                      send_message_to_gateway(
                                          send_reboot_request(nid, FALSE), send_ok))
                    /\ wire_out' = Written(send_reboot_request(nid, FALSE), trace'.send)
               ELSE /\ trace' = Trace("line", line, "dispatched",
                                      <<nid, cid, cmd, typ, val>>, handler_of(cid, cmd),
                                      <<>>, "none")
                    /\ wire_out' = <<>>
       ELSE /\ NoOtaCall
            /\ trace' = Trace("line", line, "dispatched",
                              <<nid, cid, cmd, typ, val>>, handler_of(cid, cmd),
                              <<>>, "none")
            /\ wire_out' = <<>>

(***************************************************************************)
(* process_gateway_message(line).  An exception (int() of a field that is  *)
(* no number) ends in sys.exit(1): outcome "exit".                         *)
(***************************************************************************)
(* variant of isnew: a stream line always counts as new *)
isnew_exempts_stream(line) ==
    \/ (last_message # line) \/ ((now - last_time) > 1)
    \/ (Len(py_split(line, ";")) >= 3 /\ py_split(line, ";")[3] = py_str(C_STREAM))

(* variant of isnew: every line counts as new *)
isnew_always(line) == TRUE

(* variant of isnew: the time of arrival is not looked at *)
isnew_by_text_only(line) == last_message # line

(* isnew = (last_message != line) or ((now - last_time) > 1) *)
isnew(line) == (last_message # line) \/ ((now - last_time) > 1)

process_gateway_message(raw, send_ok) ==
    LET line == py_strip(raw)
        parts == py_split(line, ";")
    IN  IF line = <<>>
        THEN /\ UNCHANGED <<last_message, last_time>>
             /\ line_dropped(line, "blank")
        ELSE /\ last_message' = line
             /\ last_time' = now
             /\ IF ~isnew(line)
                THEN line_dropped(line, "duplicate")
                ELSE IF Len(parts) < 6
                THEN line_dropped(line, "short")
                ELSE IF \E i \in 1..5 : py_int_raises(parts[i])
                THEN line_dropped(line, "exit")
                ELSE dispatch(line, py_int(parts[1]), py_int(parts[2]),
                              py_int(parts[3]), py_int(parts[5]), parts[6], send_ok)

(***************************************************************************)
(* gateway_listener, one action per blocking call of the loop.  pc is the  *)
(* place the listener thread is at: "loop" (the while test), "connect",    *)
(* "recv", "lines" (the inner while, a complete line is in the buffer),    *)
(* "sleep", "stopped" (the loop was left) and "exited" (SystemExit ended   *)
(* the thread).                                                            *)
(***************************************************************************)
(* a listener step that processes no line and sends nothing *)
listener_quiet ==
    /\ trace' = NoTrace("listener")
    /\ wire_out' = <<>>
    /\ NoOtaCall
    /\ UNCHANGED <<gateway_running, last_message, last_time, now, queues>>

(* variant of listener_close_and_sleep: gateway_socket is not reset *)
listener_sleep_keeps_socket ==
    /\ gateway_socket' = gateway_socket
    /\ pc' = "sleep"
    /\ sleep_s' = 5

(* the except Exception branch and the zero-byte branch: close, forget the *)
(* socket, sleep 5 seconds                                                 *)
listener_close_and_sleep ==
    /\ gateway_socket' = None
    /\ pc' = "sleep"
    /\ sleep_s' = 5

(* variant of listener_loop: the while test does not look at the flag *)
listener_loop_ignores_stop ==
    /\ pc = "loop"
    /\ listener_quiet
    /\ UNCHANGED <<buffer, sleep_s>>
    /\ IF gateway_socket = None
       THEN /\ pc' = "connect"
            /\ gateway_socket' = Socket("unconnected")
       ELSE /\ pc' = "recv"
            /\ UNCHANGED gateway_socket

listener_loop ==
    /\ pc = "loop"
    /\ listener_quiet
    /\ UNCHANGED <<buffer, sleep_s>>
    /\ IF ~gateway_running
       THEN /\ pc' = "stopped"
            /\ gateway_socket' =
                   IF truthy(gateway_socket) THEN Socket("closed") ELSE gateway_socket
       ELSE IF gateway_socket = None
       THEN /\ pc' = "connect"
            /\ gateway_socket' = Socket("unconnected")
       ELSE /\ pc' = "recv"
            /\ UNCHANGED gateway_socket

(* connect(): "ok", "timeout" (socket.timeout, caught by continue) or      *)
(* "refused" (any other exception)                                         *)
listener_connect(outcome) ==
    /\ pc = "connect"
    /\ outcome \in {"ok", "timeout"} => gateway_socket = Socket("unconnected")
    /\ listener_quiet
    /\ UNCHANGED buffer
    /\ IF outcome = "ok"
       THEN /\ gateway_socket' = Socket("connected")
            /\ pc' = "recv"
            /\ UNCHANGED sleep_s
       ELSE IF outcome = "timeout"
       THEN /\ pc' = "loop"
            /\ UNCHANGED <<gateway_socket, sleep_s>>
       ELSE listener_close_and_sleep

(* data.decode('utf-8', errors='ignore') of the bytes of one read.  A byte *)
(* below 0x80 is the one-character string of its character; "\\xc3" and     *)
(* "\\xa9" are the two bytes of the character U+00E9, "U+00E9" that         *)
(* character.  A lead byte with no continuation byte behind it in the same *)
(* read and a continuation byte with no lead byte before it are invalid    *)
(* and left out.                                                           *)
RECURSIVE utf8_decode_ignore(_)
utf8_decode_ignore(data) ==
    IF data = <<>> THEN <<>>
    ELSE IF Head(data) = "\\xc3"
    THEN IF Len(data) >= 2 /\ data[2] = "\\xa9"
         THEN <<"U+00E9">> \o utf8_decode_ignore(SubSeq(data, 3, Len(data)))
         ELSE utf8_decode_ignore(Tail(data))
    ELSE IF Head(data) = "\\xa9"
    THEN utf8_decode_ignore(Tail(data))
    ELSE <<Head(data)>> \o utf8_decode_ignore(Tail(data))

(* recv(1024): "data", "timeout", "eof" (zero bytes) or "error"; the trace *)
(* of a read that returned bytes holds these bytes                         *)
listener_recv(outcome, data) ==
    /\ pc = "recv"
    /\ outcome # "error" => gateway_socket = Socket("connected")
    /\ trace' = IF outcome = "data"
                THEN Trace("recv", data, "none", None, "none", <<>>, "none")
                ELSE NoTrace("listener")
    /\ wire_out' = <<>>
    /\ NoOtaCall
    /\ UNCHANGED <<gateway_running, last_message, last_time, now, queues>>
    /\ IF outcome = "data"
       THEN /\ buffer' = buffer \o utf8_decode_ignore(data)
            /\ pc' = IF py_find(buffer', "\n") = 0 THEN "loop" ELSE "lines"
            /\ UNCHANGED <<gateway_socket, sleep_s>>
       ELSE IF outcome = "timeout"
       THEN /\ pc' = "loop"
            /\ UNCHANGED <<buffer, gateway_socket, sleep_s>>
       ELSE /\ listener_close_and_sleep
            /\ UNCHANGED buffer

(* line, buffer = buffer.split('\n', 1); process_gateway_message(line) *)
listener_lines(send_ok) ==
    /\ pc = "lines"
    /\ buffer' = SubSeq(buffer, py_find(buffer, "\n") + 1, Len(buffer))
    /\ process_gateway_message(SubSeq(buffer, 1, py_find(buffer, "\n") - 1), send_ok)
    /\ pc' = IF trace'.outcome = "exit" THEN "exited"
             ELSE IF py_find(buffer', "\n") = 0 THEN "loop" ELSE "lines"
    /\ UNCHANGED <<gateway_socket, gateway_running, now, sleep_s>>

listener_sleep ==
    /\ pc = "sleep"
    /\ pc' = "loop"
    /\ sleep_s' = 0
    /\ listener_quiet
    /\ UNCHANGED <<buffer, gateway_socket>>

(***************************************************************************)
(* The operator's routes that send, schedule or stop, and the clock.       *)
(***************************************************************************)
(* the state of the listener that no route touches *)
listener_state == <<pc, buffer, sleep_s, last_message, last_time, now, queues>>

reboot_node(nid, send_ok) ==
    /\ NoOtaCall
    /\ UNCHANGED <<listener_state, gateway_socket, gateway_running>>
    /\ IF gateway_socket = None
       THEN /\ trace' = NoTrace("reboot_node")
            /\ wire_out' = <<>>
       ELSE /\ trace' = Trace("reboot_node", <<>>, "none", None, "none",
                              send_reboot_request(nid, FALSE),
                              send_message_to_gateway(
                                  send_reboot_request(nid, FALSE), send_ok))
            /\ wire_out' = Written(send_reboot_request(nid, FALSE), trace'.send)

nodes_discover(send_ok) ==
    /\ NoOtaCall
    /\ UNCHANGED <<listener_state, gateway_socket, gateway_running>>
    /\ trace' = Trace("nodes_discover", <<>>, "none", None, "none",
                      format_message(255, 255, C_INTERNAL, 0, I_PRESENTATION, <<>>),
                      send_message_to_gateway(
                          format_message(255, 255, C_INTERNAL, 0, I_PRESENTATION, <<>>),
                          send_ok))
    /\ wire_out' = Written(format_message(255, 255, C_INTERNAL, 0, I_PRESENTATION, <<>>),
                           trace'.send)

(* send_custom_message with the form field node_id and the defaults of the *)
(* other fields (child 255, command 3, ack 0, type 13, empty payload):     *)
(* refused without a socket, "invalid" on a field that is no number or is  *)
(* out of range, else the formatted message goes to the send               *)
send_custom_message(node_id, send_ok) ==
    /\ NoOtaCall
    /\ UNCHANGED <<listener_state, gateway_socket, gateway_running>>
    /\ IF gateway_socket = None
       THEN /\ trace' = NoTrace("send_custom_message")
            /\ wire_out' = <<>>
       ELSE IF py_int_raises(node_id) \/ ~(0 <= py_int(node_id) /\ py_int(node_id) <= 255)
       THEN /\ trace' = Trace("send_custom_message", <<>>, "invalid", None, "none",
                              <<>>, "none")
            /\ wire_out' = <<>>
       ELSE /\ trace' = Trace("send_custom_message", <<>>, "none", None, "none",
                              format_message(py_int(node_id), 255, 3, 0, 13, <<>>),
                              send_message_to_gateway(
                                  format_message(py_int(node_id), 255, 3, 0, 13, <<>>),
                                  send_ok))
            /\ wire_out' = Written(format_message(py_int(node_id), 255, 3, 0, 13, <<>>),
                                   trace'.send)

ota_update_node(nid, fw_type, fw_ver) ==
    /\ request_update(nid, IntArg(fw_type), IntArg(fw_ver))
    /\ UNCHANGED frames
    /\ trace' = NoTrace("ota_update_node")
    /\ wire_out' = <<>>
    /\ UNCHANGED <<listener_state, gateway_socket, gateway_running>>

(* the finally clause of main() *)
main_stop ==
    /\ gateway_running
    /\ gateway_running' = FALSE
    /\ gateway_socket' =
           IF truthy(gateway_socket) THEN Socket("closed") ELSE gateway_socket
    /\ NoOtaCall
    /\ trace' = NoTrace("main_stop")
    /\ wire_out' = <<>>
    /\ UNCHANGED listener_state

(* time.time() moves on by one second *)
Tick ==
    /\ now < MaxClock
    /\ now' = now + 1
    /\ NoOtaCall
    /\ trace' = NoTrace("tick")
    /\ wire_out' = <<>>
    /\ UNCHANGED <<pc, buffer, sleep_s, last_message, last_time,
                   gateway_socket, gateway_running, queues>>

(***************************************************************************)
(* The dispatch specification: the listener thread on the full set of      *)
(* lines, the operator scheduling updates, and the clock, with the stored  *)
(* firmware <<1, 1>> loaded by main() and the listener about to connect.   *)
(* No page reads the event queues and they are full, the state they stay   *)
(* in from the 100th decoded line on; SpecQueue follows them from empty.   *)
(***************************************************************************)
GwNodes == {1, 2}

HeartbeatLine(n) ==
    format_message(n, 255, C_INTERNAL, 0, I_HEARTBEAT_RESPONSE, <<>>)

ConfigRequestLine(n) ==
    format_message(n, 255, C_STREAM, 0, ST_FIRMWARE_CONFIG_REQUEST,
                   fw_int_to_hex(<<1, 1, 8, 0, 3>>))

(* the lines the gateway delivers: heartbeats, a post-sleep notification,  *)
(* a battery report, the OTA requests of node 1 (one with a malformed      *)
(* payload), a value whose payload holds ";", a short line, a line whose   *)
(* node id is no number and a blank line                                   *)
GwLines ==
    {HeartbeatLine(n) : n \in GwNodes}
    \cup {format_message(1, 255, C_INTERNAL, 0, I_POST_SLEEP_NOTIFICATION, <<>>),
          format_message(1, 255, C_INTERNAL, 0, I_BATTERY_LEVEL, <<"9", "5">>),
          ConfigRequestLine(1),
          format_message(1, 255, C_STREAM, 0, ST_FIRMWARE_CONFIG_REQUEST,
                         <<"z", "z">>),
          format_message(1, 255, C_STREAM, 0, ST_FIRMWARE_REQUEST,
                         fw_int_to_hex(<<1, 1, 0>>)),
          format_message(1, 3, C_SET, 0, 47, <<"a", ";", "b">>),
          <<"1", ";", "3", ";", "2">>,
          <<"x">> \o format_message(1, 3, C_SET, 0, 2, <<"3", "7">>),
          <<>>}

(* what one recv returns: one line and its newline *)
Chunks(lines) == {l \o <<"\n">> : l \in lines}

InitGw ==
    /\ firmware_store = dict_set(<<>>, <<1, 1>>, PreparedFile[2])
    /\ requested_nodes = <<>>
    /\ unstarted_nodes = <<>>
    /\ started_nodes = <<>>
    /\ call = NoCall
    /\ ret = None
    /\ message_queue = maxsize
    /\ sensor_queue = maxsize
    /\ node_queue = maxsize
    /\ gateway_init
    /\ frames = IdleFrames

ListenerConnect == \E outcome \in {"ok", "timeout", "refused"} : listener_connect(outcome)

ListenerRecv(lines) ==
    \E outcome \in {"data", "timeout", "eof", "error"}, data \in Chunks(lines) :
        listener_recv(outcome, data)

ListenerLines == \E send_ok \in BOOLEAN : listener_lines(send_ok)

OtaUpdateNode(nodes) == \E nid \in nodes : ota_update_node(nid, 1, 1)

NextGw ==
    \/ listener_loop
    \/ ListenerConnect
    \/ ListenerRecv(GwLines)
    \/ ListenerLines
    \/ listener_sleep
    \/ OtaUpdateNode(GwNodes)
    \/ Tick

SpecGw == InitGw /\ [][NextGw]_vars

(***************************************************************************)
(* The connection specification: the listener thread on two lines of node  *)
(* 1 that make it send, the operator's routes that send, and the stop.     *)
(* SpecConnFair adds what the scheduling gives: the listener thread keeps  *)
(* running, so none of its blocking calls (the loop test, connect, recv,   *)
(* sleep) is enabled for ever without being taken (weak fairness), and a   *)
(* gateway that keeps being tried accepts in the end (strong fairness of a *)
(* successful connect).                                                    *)
(***************************************************************************)
ConnLines == {HeartbeatLine(1), ConfigRequestLine(1)}

RebootNode == \E nid \in GwNodes, send_ok \in BOOLEAN : reboot_node(nid, send_ok)

NodesDiscover == \E send_ok \in BOOLEAN : nodes_discover(send_ok)

(* the node_id field of the form: a node, a number out of range, no number *)
NodeIdFields == {<<"1">>, <<"2", "5", "6">>, <<"x">>}

SendCustomMessage ==
    \E node_id \in NodeIdFields, send_ok \in BOOLEAN : send_custom_message(node_id, send_ok)

NextConn ==
    \/ listener_loop
    \/ ListenerConnect
    \/ ListenerRecv(ConnLines)
    \/ ListenerLines
    \/ listener_sleep
    \/ OtaUpdateNode({1})
    \/ RebootNode
    \/ NodesDiscover
    \/ SendCustomMessage
    \/ main_stop

SpecConn == InitGw /\ [][NextConn]_vars

SpecConnFair ==
    /\ SpecConn
    /\ WF_vars(listener_loop)
    /\ WF_vars(ListenerConnect)
    /\ WF_vars(ListenerRecv(ConnLines))
    /\ WF_vars(listener_sleep)
    /\ SF_vars(listener_connect("ok"))

(***************************************************************************)
(* The exit specification: the listener thread on a heartbeat and on a     *)
(* line whose node id is no number, which ends process_gateway_message in  *)
(* sys.exit(1), and the operator's reboot and custom message.  SystemExit  *)
(* is no Exception: the except clauses of gateway_listener let it pass,    *)
(* the thread ends (pc = "exited") and the other threads run on.           *)
(***************************************************************************)
ExitLines == {HeartbeatLine(1), <<"x">> \o format_message(1, 3, C_SET, 0, 2, <<"3", "7">>)}

NextExit ==
    \/ listener_loop
    \/ ListenerConnect
    \/ ListenerRecv(ExitLines)
    \/ ListenerLines
    \/ listener_sleep
    \/ RebootNode
    \/ SendCustomMessage

SpecExit == InitGw /\ [][NextExit]_vars

(***************************************************************************)
(* The queue specification: the listener thread, connected to a gateway    *)
(* that keeps sending two lines of node 1, the operator scheduling the     *)
(* update of node 1.  The queues start empty and no page is open that      *)
(* would read them.                                                        *)
(***************************************************************************)
InitQueue ==
    /\ firmware_store = dict_set(<<>>, <<1, 1>>, PreparedFile[2])
    /\ requested_nodes = <<>>
    /\ unstarted_nodes = <<>>
    /\ started_nodes = <<>>
    /\ call = NoCall
    /\ ret = None
    /\ message_queue = 0
    /\ sensor_queue = 0
    /\ node_queue = 0
    /\ gateway_init
    /\ frames = IdleFrames

ListenerRecvData(lines) == \E data \in Chunks(lines) : listener_recv("data", data)

NextQueue ==
    \/ listener_loop
    \/ listener_connect("ok")
    \/ ListenerRecvData(ConnLines)
    \/ ListenerLines
    \/ OtaUpdateNode({1})

SpecQueue == InitQueue /\ [][NextQueue]_vars

(***************************************************************************)
(* The loading specification: the manager with the firmware id <<3, 2>>,   *)
(* loaded from a file of 1 to MaxRawLen bytes, of a byte less than a page, *)
(* a page, a byte more than a page, or 320 bytes, and node 7, whose update *)
(* is scheduled and which asks for the firmware config.                    *)
(***************************************************************************)
MaxRawLen == 20

RawLens == (1..MaxRawLen) \cup {127, 128, 129, 320}

(* prepare_firmware of the file of every length, tabulated *)
PreparedLength == [len \in RawLens |-> prepare_firmware(RawImage(len, 3))]

(* load_firmware(fw_type, fw_ver, path) for the file that holds len bytes; *)
(* the call records the length in place of the path                        *)
load_firmware_of_length(fw_type, fw_ver, len) ==
    /\ call' = Call("load_firmware", 0, IntArg(fw_type), IntArg(fw_ver), len, <<>>, None)
    /\ UNCHANGED registry
    /\ firmware_store' = dict_set(firmware_store, <<fw_type, fw_ver>>, PreparedLength[len])
    /\ ret' = True

LoadLength ==
    \E len \in RawLens : load_firmware_of_length(3, 2, len) /\ UNCHANGED <<gateway_vars, frames>>

RequestUpdate7 == request_update(7, IntArg(3), IntArg(2)) /\ UNCHANGED <<gateway_vars, frames>>

ConfigRequest7 ==
    handle_firmware_config_request(7, fw_int_to_hex(<<1, 1, 8, 0, 3>>))
        /\ UNCHANGED <<gateway_vars, frames>>

NextLoad ==
    \/ LoadLength
    \/ RequestUpdate7
    \/ ConfigRequest7

SpecLoad == Init /\ [][NextLoad]_vars

(***************************************************************************)
(* The interleaving specification: the operator's thread inside            *)
(* request_update and the listener thread inside one of the two request    *)
(* handlers, for node 1, one statement that touches the registry per step. *)
(* The manager has no lock; a thread can be suspended between any two      *)
(* statements.  pc is the source line the thread executes next.            *)
(***************************************************************************)
request_update_step(node_id, fw_type, fw_ver) ==
    LET f == frames.operator IN
    /\ UNCHANGED firmware_store
    /\ CASE f.pc = "idle" ->
             (* lines 138-146 *)
             /\ UNCHANGED registry
             /\ IF \/ int_raises(fw_type) \/ int_raises(fw_ver)
                   \/ <<to_int(fw_type), to_int(fw_ver)>> \notin DOMAIN firmware_store
                THEN /\ call' = Call("request_update", node_id, fw_type, fw_ver,
                                     0, <<>>, None)
                     /\ ret' = False
                     /\ UNCHANGED frames
                ELSE /\ frames' = [frames EXCEPT !.operator =
                                      Frame("148", node_id, <<fw_type, fw_ver>>,
                                            <<to_int(fw_type), to_int(fw_ver)>>)]
                     /\ UNCHANGED <<call, ret>>
         [] f.pc = "148" ->
             /\ unstarted_nodes' = dict_pop(unstarted_nodes, f.node_id)
             /\ frames' = [frames EXCEPT !.operator.pc = "149"]
             /\ UNCHANGED <<requested_nodes, started_nodes, call, ret>>
         [] f.pc = "149" ->
             /\ started_nodes' = dict_pop(started_nodes, f.node_id)
             /\ frames' = [frames EXCEPT !.operator.pc = "152"]
             /\ UNCHANGED <<requested_nodes, unstarted_nodes, call, ret>>
         [] f.pc = "152" ->
             /\ requested_nodes' = dict_set(requested_nodes, f.node_id, f.fw_id)
             /\ frames' = [frames EXCEPT !.operator = IdleFrames.operator]
             /\ call' = Call("request_update", f.node_id, f.arg[1], f.arg[2],
                             0, <<>>, None)
             /\ ret' = True
             /\ UNCHANGED <<unstarted_nodes, started_nodes>>

handle_firmware_config_request_step(node_id, payload) ==
    LET f == frames.listener IN
    /\ UNCHANGED <<firmware_store, started_nodes>>
    /\ CASE f.pc = "idle" ->
             (* lines 168-172 *)
             /\ UNCHANGED <<requested_nodes, unstarted_nodes>>
             /\ IF fw_hex_to_int_raises(payload, 5)
                THEN /\ call' = Call("config_request", node_id, None, None, 0,
                                     payload, None)
                     /\ ret' = None
                     /\ UNCHANGED frames
                ELSE /\ frames' = [frames EXCEPT !.listener =
                                      Frame("178", node_id, payload, None)]
                     /\ UNCHANGED <<call, ret>>
         [] f.pc = "178" ->
             (* self.requested_nodes.get(node_id) or ... *)
             /\ frames' = [frames EXCEPT !.listener =
                              IF truthy(dict_get(requested_nodes, f.node_id))
                              THEN Frame("181", f.node_id, f.arg,
                                         dict_get(requested_nodes, f.node_id))
                              ELSE Frame("179", f.node_id, f.arg, None)]
             /\ UNCHANGED <<requested_nodes, unstarted_nodes, call, ret>>
         [] f.pc = "179" ->
             (* ... or self.unstarted_nodes.get(node_id) *)
             /\ frames' = [frames EXCEPT !.listener =
                              Frame("181", f.node_id, f.arg,
                                    dict_get(unstarted_nodes, f.node_id))]
             /\ UNCHANGED <<requested_nodes, unstarted_nodes, call, ret>>
         [] f.pc = "181" ->
             (* lines 181-188: fw_id is None, or no such firmware *)
             /\ UNCHANGED <<requested_nodes, unstarted_nodes>>
             /\ IF f.fw_id = None \/ f.fw_id \notin DOMAIN firmware_store
                THEN /\ call' = Call("config_request", f.node_id, None, None, 0,
                                     f.arg, f.fw_id)
                     /\ ret' = None
                     /\ frames' = [frames EXCEPT !.listener = IdleFrames.listener]
                ELSE /\ frames' = [frames EXCEPT !.listener.pc = "191"]
                     /\ UNCHANGED <<call, ret>>
         [] f.pc = "191" ->
             /\ requested_nodes' = dict_pop(requested_nodes, f.node_id)
             /\ frames' = [frames EXCEPT !.listener.pc = "192"]
             /\ UNCHANGED <<unstarted_nodes, call, ret>>
         [] f.pc = "192" ->
             (* lines 192-200; fware was read at line 184 *)
             /\ unstarted_nodes' = dict_set(unstarted_nodes, f.node_id, f.fw_id)
             /\ frames' = [frames EXCEPT !.listener = IdleFrames.listener]
             /\ call' = Call("config_request", f.node_id, None, None, 0,
                             f.arg, f.fw_id)
             /\ ret' = fw_int_to_hex(<<f.fw_id[1], f.fw_id[2],
                                       firmware_store[f.fw_id].blocks,
                                       firmware_store[f.fw_id].crc>>)
             /\ UNCHANGED requested_nodes

handle_firmware_request_step(node_id, payload) ==
    LET f == frames.listener IN
    /\ UNCHANGED <<firmware_store, requested_nodes>>
    /\ CASE f.pc = "idle" ->
             (* lines 212-216 *)
             /\ UNCHANGED <<unstarted_nodes, started_nodes>>
             /\ IF fw_hex_to_int_raises(payload, 3)
                THEN /\ call' = Call("block_request", node_id, None, None, 0,
                                     payload, None)
                     /\ ret' = None
                     /\ UNCHANGED frames
                ELSE /\ frames' = [frames EXCEPT !.listener =
                                      Frame("222", node_id, payload, None)]
                     /\ UNCHANGED <<call, ret>>
         [] f.pc = "222" ->
             (* self.unstarted_nodes.get(node_id) or ... *)
             /\ frames' = [frames EXCEPT !.listener =
                              IF truthy(dict_get(unstarted_nodes, f.node_id))
                              THEN Frame("225", f.node_id, f.arg,
                                         dict_get(unstarted_nodes, f.node_id))
                              ELSE Frame("223", f.node_id, f.arg, None)]
             /\ UNCHANGED <<unstarted_nodes, started_nodes, call, ret>>
         [] f.pc = "223" ->
             (* ... or self.started_nodes.get(node_id) *)
             /\ frames' = [frames EXCEPT !.listener =
                              Frame("225", f.node_id, f.arg,
                                    dict_get(started_nodes, f.node_id))]
             /\ UNCHANGED <<unstarted_nodes, started_nodes, call, ret>>
         [] f.pc = "225" ->
             (* lines 225-231: fw_id is None, or the declared firmware is *)
             (* not in the catalog                                         *)
             /\ UNCHANGED <<unstarted_nodes, started_nodes>>
             /\ IF \/ f.fw_id = None
                   \/ <<fw_hex_to_int(f.arg, 3)[1], fw_hex_to_int(f.arg, 3)[2]>>
                         \notin DOMAIN firmware_store
                THEN /\ call' = Call("block_request", f.node_id, None, None, 0,
                                     f.arg, f.fw_id)
                     /\ ret' = IF f.fw_id = None THEN None ELSE Raised
                     /\ frames' = [frames EXCEPT !.listener = IdleFrames.listener]
                ELSE /\ frames' = [frames EXCEPT !.listener.pc = "233"]
                     /\ UNCHANGED <<call, ret>>
         [] f.pc = "233" ->
             /\ unstarted_nodes' = dict_pop(unstarted_nodes, f.node_id)
             /\ frames' = [frames EXCEPT !.listener.pc = "234"]
             /\ UNCHANGED <<started_nodes, call, ret>>
         [] f.pc = "234" ->
             (* lines 234-250 *)
             /\ started_nodes' =
                    dict_set(started_nodes, f.node_id,
                             <<fw_hex_to_int(f.arg, 3)[1], fw_hex_to_int(f.arg, 3)[2]>>)
             /\ frames' = [frames EXCEPT !.listener = IdleFrames.listener]
             /\ call' = Call("block_request", f.node_id, None, None, 0,
                             f.arg, f.fw_id)
             /\ ret' = fw_int_to_hex(fw_hex_to_int(f.arg, 3))
                          \o hexlify(py_slice(
                                 firmware_store[<<fw_hex_to_int(f.arg, 3)[1],
                                                  fw_hex_to_int(f.arg, 3)[2]>>].data,
                                 fw_hex_to_int(f.arg, 3)[3] * FIRMWARE_BLOCK_SIZE,
                                 (fw_hex_to_int(f.arg, 3)[3] + 1) * FIRMWARE_BLOCK_SIZE))
             /\ UNCHANGED unstarted_nodes

InitRace ==
    /\ firmware_store = dict_set(dict_set(<<>>, <<1, 1>>, PreparedFile[2]),
                                 <<258, 1>>, PreparedFile[3])
    /\ requested_nodes = <<>>
    /\ unstarted_nodes = <<>>
    /\ started_nodes = <<>>
    /\ call = NoCall
    /\ ret = None
    /\ message_queue = 0
    /\ sensor_queue = 0
    /\ node_queue = 0
    /\ gateway_init
    /\ frames = IdleFrames

OperatorStep ==
    \E fw_type \in FwTypes :
        request_update_step(1, IntArg(fw_type), IntArg(1)) /\ UNCHANGED gateway_vars

ListenerConfigStep ==
    /\ frames.listener.pc \in {"idle", "178", "179", "181", "191", "192"}
    /\ handle_firmware_config_request_step(1, fw_int_to_hex(<<1, 1, 8, 0, 3>>))
    /\ UNCHANGED gateway_vars

ListenerBlockStep ==
    /\ frames.listener.pc \in {"idle", "222", "223", "225", "233", "234"}
    /\ handle_firmware_request_step(1, fw_int_to_hex(<<1, 1, 0>>))
    /\ UNCHANGED gateway_vars

NextRace ==
    \/ OperatorStep
    \/ ListenerConfigStep
    \/ ListenerBlockStep

SpecRace == InitRace /\ [][NextRace]_vars

(***************************************************************************)
(* Vocabulary of the properties.                                           *)
(***************************************************************************)
(* the maps among rq, us, st that hold an entry for node n *)
Phases(rq, us, st, n) ==
    {m \in {"requested", "unstarted", "started"} :
        \/ m = "requested" /\ n \in DOMAIN rq
        \/ m = "unstarted" /\ n \in DOMAIN us
        \/ m = "started" /\ n \in DOMAIN st}

(* the phases of node n before and after a step *)
PhasesOf(n) == Phases(requested_nodes, unstarted_nodes, started_nodes, n)
PhasesOfNext(n) == Phases(requested_nodes', unstarted_nodes', started_nodes', n)

(* the entries of node n in the three maps, before and after a step *)
EntryOf(n) ==
    <<dict_get(requested_nodes, n), dict_get(unstarted_nodes, n),
      dict_get(started_nodes, n)>>
EntryOfNext(n) ==
    <<dict_get(requested_nodes', n), dict_get(unstarted_nodes', n),
      dict_get(started_nodes', n)>>

(* the firmware id a request_update call names, when both arguments are integers *)
CallFwId(c) == <<to_int(c.fw_type), to_int(c.fw_ver)>>

(* C1: after any sequence of operations run one at a time every node is a  *)
(* key of at most one of requested_nodes, unstarted_nodes, started_nodes.  *)
C1_OnePhasePerNode ==
    \A n \in Nodes : Cardinality(PhasesOf(n)) <= 1

(* C1 witness: one node has reached Started through the whole cycle while  *)
(* another node is Requested.                                              *)
C1_Witness ==
    \E n \in Nodes, m \in Nodes :
        /\ n # m
        /\ PhasesOf(n) = {"started"}
        /\ PhasesOf(m) = {"requested"}
        /\ call.op = "block_request"

(* C2: the phase of a node changes only by a successful request_update     *)
(* (any phase to Requested), a config request (Requested to Unstarted) or  *)
(* a block request (Unstarted to Started); no step returns a node to Idle, *)
(* moves Started back to Unstarted or Requested straight to Started, and   *)
(* Started lasts until the next successful request_update.                 *)
C2_PhaseSteps ==
    [][\A n \in Nodes :
          PhasesOfNext(n) # PhasesOf(n) =>
             \/ /\ PhasesOfNext(n) = {"requested"}
                /\ call'.op = "request_update"
                /\ call'.node_id = n
                /\ ret' = True
             \/ /\ PhasesOf(n) = {"requested"}
                /\ PhasesOfNext(n) = {"unstarted"}
                /\ call'.op = "config_request"
                /\ call'.node_id = n
             \/ /\ PhasesOf(n) = {"unstarted"}
                /\ PhasesOfNext(n) = {"started"}
                /\ call'.op = "block_request"
                /\ call'.node_id = n]_vars

(* C2 witness: a node is still Started after the firmware it is served     *)
(* from has been deleted.                                                  *)
C2_Witness ==
    \E n \in Nodes :
        /\ PhasesOf(n) = {"started"}
        /\ started_nodes[n] \notin DOMAIN firmware_store
        /\ call.op = "delete_firmware"

(* C3: request_update for a firmware id of the catalog returns True and    *)
(* leaves the node in Requested with that target and in no other phase,    *)
(* whatever its phase was; the entries of the other nodes do not change.   *)
C3_RequestUpdateSchedules ==
    [][(/\ call'.op = "request_update"
        /\ ~int_raises(call'.fw_type)
        /\ ~int_raises(call'.fw_ver)
        /\ CallFwId(call') \in DOMAIN firmware_store)
       => /\ ret' = True
          /\ PhasesOfNext(call'.node_id) = {"requested"}
          /\ requested_nodes'[call'.node_id] = CallFwId(call')
          /\ \A m \in Nodes \ {call'.node_id} : EntryOfNext(m) = EntryOf(m)]_vars

(* C3 witness: a request_update has succeeded while another node is in     *)
(* the middle of a transfer.                                               *)
C3_Witness ==
    /\ call.op = "request_update"
    /\ ret = True
    /\ PhasesOf(call.node_id) = {"requested"}
    /\ \E m \in Nodes \ {call.node_id} : PhasesOf(m) = {"started"}

(* C4: request_update for a firmware id that is not in the catalog (or     *)
(* with an argument that is no integer) returns False and leaves the       *)
(* registry and the catalog as they were.                                  *)
C4_UnknownFirmwareRejected ==
    [][(/\ call'.op = "request_update"
        /\ \/ int_raises(call'.fw_type)
           \/ int_raises(call'.fw_ver)
           \/ CallFwId(call') \notin DOMAIN firmware_store)
       => /\ ret' = False
          /\ registry' = registry
          /\ firmware_store' = firmware_store]_vars

(* C4 witness: a request_update for an id missing from the catalog has     *)
(* failed for a node that holds an entry.                                  *)
C4_Witness ==
    /\ call.op = "request_update"
    /\ ret = False
    /\ ~int_raises(call.fw_type)
    /\ CallFwId(call) \notin DOMAIN firmware_store
    /\ PhasesOf(call.node_id) = {"unstarted"}

(* C5 as stated: a successful request_update followed at once by a config  *)
(* request of the same node, with any payload whatsoever, moves the node   *)
(* from Requested to Unstarted.                                            *)
C5_AnyPayloadAdvances ==
    [][(/\ call.op = "request_update"
        /\ ret = True
        /\ call'.op = "config_request"
        /\ call'.node_id = call.node_id)
       => PhasesOfNext(call'.node_id) = {"unstarted"}]_vars

(* C5 amended: a successful request_update followed at once by a config    *)
(* request of the same node whose payload hex-decodes to five 16-bit words *)
(* moves the node from Requested to Unstarted, with the same target, and   *)
(* does not leave it in Requested.                                         *)
C5_DecodablePayloadAdvances ==
    [][(/\ call.op = "request_update"
        /\ ret = True
        /\ call'.op = "config_request"
        /\ call'.node_id = call.node_id
        /\ ~fw_hex_to_int_raises(call'.payload, 5))
       => /\ PhasesOfNext(call'.node_id) = {"unstarted"}
          /\ unstarted_nodes'[call'.node_id] = requested_nodes[call.node_id]]_vars

(* C5 witness: a decodable config request has been answered and its node   *)
(* is Unstarted with the target the handler looked up.                     *)
C5_Witness ==
    /\ call.op = "config_request"
    /\ ~fw_hex_to_int_raises(call.payload, 5)
    /\ IsPayload(ret)
    /\ PhasesOf(call.node_id) = {"unstarted"}
    /\ unstarted_nodes[call.node_id] = call.fw_id

(* C6: a config request for a node that is neither Requested nor Unstarted *)
(* (no entry, or Started only) gets no response and changes neither the    *)
(* registry nor the catalog.                                               *)
C6_UnscheduledConfigIgnored ==
    [][(/\ call'.op = "config_request"
        /\ call'.node_id \notin DOMAIN requested_nodes
        /\ call'.node_id \notin DOMAIN unstarted_nodes)
       => /\ ret' = None
          /\ registry' = registry
          /\ firmware_store' = firmware_store]_vars

(* C6 witness: a decodable config request of a Started node, whose         *)
(* firmware is loaded, got no response.                                    *)
C6_Witness ==
    /\ call.op = "config_request"
    /\ ~fw_hex_to_int_raises(call.payload, 5)
    /\ ret = None
    /\ PhasesOf(call.node_id) = {"started"}
    /\ started_nodes[call.node_id] \in DOMAIN firmware_store

(* C7: a block request for a node that is idle or only Requested gets no   *)
(* response and changes nothing in the registry, whatever firmware id and  *)
(* block index the payload declares.                                       *)
C7_EarlyBlockRequestIgnored ==
    [][(/\ call'.op = "block_request"
        /\ call'.node_id \notin DOMAIN unstarted_nodes
        /\ call'.node_id \notin DOMAIN started_nodes)
       => /\ ret' = None
          /\ registry' = registry]_vars

(* C7 witness: a Requested node has sent a decodable block request for a   *)
(* loaded firmware and an existing block, and got no response.             *)
C7_Witness ==
    /\ call.op = "block_request"
    /\ ~fw_hex_to_int_raises(call.payload, 3)
    /\ ret = None
    /\ PhasesOf(call.node_id) = {"requested"}
    /\ <<fw_hex_to_int(call.payload, 3)[1], fw_hex_to_int(call.payload, 3)[2]>>
           \in DOMAIN firmware_store
    /\ fw_hex_to_int(call.payload, 3)[3] = 0

(* C8 as stated: when the firmware a request refers to is missing from the *)
(* catalog no response is sent and the node still advances: a Requested    *)
(* node becomes Unstarted on a config request, an Unstarted node becomes   *)
(* Started on a block request.                                             *)
C8_MissingFirmwareAdvances ==
    [][/\ (/\ call'.op = "config_request"
           /\ ~fw_hex_to_int_raises(call'.payload, 5)
           /\ call'.node_id \in DOMAIN requested_nodes
           /\ requested_nodes[call'.node_id] \notin DOMAIN firmware_store)
          => /\ ret' = None
             /\ PhasesOfNext(call'.node_id) = {"unstarted"}
       /\ (/\ call'.op = "block_request"
           /\ ~fw_hex_to_int_raises(call'.payload, 3)
           /\ call'.node_id \in DOMAIN unstarted_nodes
           /\ <<fw_hex_to_int(call'.payload, 3)[1],
                fw_hex_to_int(call'.payload, 3)[2]>> \notin DOMAIN firmware_store)
          => /\ ret' = None
             /\ PhasesOfNext(call'.node_id) = {"started"}]_vars

(* the number of bytes, at most 16, that data holds from offset start on *)
BytesFrom(data, start) ==
    IF Len(data) <= start THEN 0
    ELSE IF Len(data) - start < 16 THEN Len(data) - start
    ELSE 16

(* C9: the response to a block request carries the firmware id and block   *)
(* index the node declared in that request, the Started entry of the node  *)
(* records that id, and the block data are taken from the image of that id *)
(* and not from the image of the target the registry held.                 *)
C9_BlockServedFromDeclaredId ==
    [][(/\ call'.op = "block_request"
        /\ IsPayload(ret'))
       => /\ ~fw_hex_to_int_raises(call'.payload, 3)
          /\ \A t \in {fw_hex_to_int(call'.payload, 3)[1]},
                v \in {fw_hex_to_int(call'.payload, 3)[2]},
                b \in {fw_hex_to_int(call'.payload, 3)[3]} :
                /\ <<t, v>> \in DOMAIN firmware_store
                /\ fw_hex_to_int(SubSeq(ret', 1, 12), 3) = <<t, v, b>>
                /\ started_nodes'[call'.node_id] = <<t, v>>
                /\ \A data \in {firmware_store[<<t, v>>].data} :
                      /\ Len(ret') = 12 + 2 * BytesFrom(data, 16 * b)
                      /\ \A k \in 1..BytesFrom(data, 16 * b) :
                            /\ ret'[12 + 2 * k - 1] =
                                   HexChars[(data[16 * b + k] \div 16) + 1]
                            /\ ret'[12 + 2 * k] =
                                   HexChars[(data[16 * b + k] % 16) + 1]]_vars

(* C9 witness: a block was served for an id that differs from the target   *)
(* the registry held for the node, and both ids are loaded.                *)
C9_Witness ==
    /\ call.op = "block_request"
    /\ IsPayload(ret)
    /\ call.fw_id # started_nodes[call.node_id]
    /\ call.fw_id \in DOMAIN firmware_store
    /\ firmware_store[call.fw_id] # firmware_store[started_nodes[call.node_id]]
    /\ Len(ret) = 44

(* C10: for a node in Requested or Unstarted whose target image is in the  *)
(* catalog, a config request (one that decodes to five words) returns a    *)
(* payload that decodes to exactly the four words target type, target      *)
(* version, blocks and crc of the image, and the node ends in Unstarted    *)
(* with the same target.                                                   *)
C10_ConfigResponseWords ==
    [][(/\ call'.op = "config_request"
        /\ ~fw_hex_to_int_raises(call'.payload, 5)
        /\ \/ call'.node_id \in DOMAIN requested_nodes
           \/ call'.node_id \in DOMAIN unstarted_nodes
        /\ (IF call'.node_id \in DOMAIN requested_nodes
            THEN requested_nodes[call'.node_id]
            ELSE unstarted_nodes[call'.node_id]) \in DOMAIN firmware_store)
       => LET target == IF call'.node_id \in DOMAIN requested_nodes
                        THEN requested_nodes[call'.node_id]
                        ELSE unstarted_nodes[call'.node_id]
              image == firmware_store[target]
          IN  /\ IsPayload(ret')
              /\ ~fw_hex_to_int_raises(ret', 4)
              /\ fw_hex_to_int(ret', 4) =
                     <<target[1], target[2], image.blocks, image.crc>>
              /\ PhasesOfNext(call'.node_id) = {"unstarted"}
              /\ unstarted_nodes'[call'.node_id] = target]_vars

(* C10 witness: a config response for the two-byte firmware type 258 and   *)
(* the 16-block image has been returned.                                   *)
C10_Witness ==
    /\ call.op = "config_request"
    /\ IsPayload(ret)
    /\ Len(ret) = 16
    /\ fw_hex_to_int(ret, 4)[1] = 258
    /\ fw_hex_to_int(ret, 4)[3] = 16
    /\ PhasesOf(call.node_id) = {"unstarted"}

(* C11: for a node in Unstarted or Started, a block request that declares   *)
(* a firmware id (t, v) of the catalog and a block index i below the block *)
(* count of that image returns the three words t, v, i followed by the hex *)
(* of the 16 bytes data[16*i .. 16*i+15] of the padded image, and the node *)
(* ends in Started.                                                        *)
C11_InRangeBlockResponse ==
    [][(/\ call'.op = "block_request"
        /\ ~fw_hex_to_int_raises(call'.payload, 3)
        /\ \/ call'.node_id \in DOMAIN unstarted_nodes
           \/ call'.node_id \in DOMAIN started_nodes)
       => \A t \in {fw_hex_to_int(call'.payload, 3)[1]},
             v \in {fw_hex_to_int(call'.payload, 3)[2]},
             i \in {fw_hex_to_int(call'.payload, 3)[3]} :
             (/\ <<t, v>> \in DOMAIN firmware_store
              /\ i < firmware_store[<<t, v>>].blocks)
             => /\ IsPayload(ret')
                /\ Len(ret') = 12 + 2 * FIRMWARE_BLOCK_SIZE
                /\ SubSeq(ret', 1, 12) = fw_int_to_hex(<<t, v, i>>)
                /\ SubSeq(ret', 13, Len(ret')) =
                       hexlify(SubSeq(firmware_store[<<t, v>>].data,
                                      16 * i + 1, 16 * i + 16))
                /\ PhasesOfNext(call'.node_id) = {"started"}]_vars

(* C11 witness: a node has been served block 8, which only the 16-block   *)
(* image holds, and is Started.                                            *)
C11_Witness ==
    /\ call.op = "block_request"
    /\ IsPayload(ret)
    /\ call.fw_id # None
    /\ ~fw_hex_to_int_raises(call.payload, 3)
    /\ fw_hex_to_int(call.payload, 3)[3] = 8
    /\ Len(ret) = 44
    /\ PhasesOf(call.node_id) = {"started"}

(* C12: while lines are processed, the reboot command of node n, the line  *)
(* n;255;3;0;13; with an empty payload, is passed to the send exactly when *)
(* a heartbeat response or a post-sleep notification of n is dispatched    *)
(* while n is Requested; a node that is idle, Unstarted or Started gets no *)
(* reboot command, and the command is what a successful send writes.      *)
C12_RebootOnHeartbeatWhileRequested ==
    [][trace'.op = "line" =>
          \A n \in GwNodes :
             /\ (trace'.msg = py_str(n) \o <<";", "2", "5", "5", ";", "3", ";",
                                              "0", ";", "1", "3", ";">>)
                <=> (/\ trace'.outcome = "dispatched"
                     /\ trace'.event[1] = n
                     /\ trace'.event[3] = C_INTERNAL
                     /\ trace'.event[4] \in {I_HEARTBEAT_RESPONSE,
                                             I_POST_SLEEP_NOTIFICATION}
                     /\ PhasesOf(n) = {"requested"})
             /\ trace'.send = "written" => wire_out' = <<trace'.msg \o <<"\n">>>>
             /\ trace'.send # "written" => wire_out' = <<>>]_vars

(* C12 witness: the heartbeat of node 2, which is Requested, has made the  *)
(* listener write the reboot command of node 2 while node 1 is Unstarted.  *)
C12_Witness ==
    /\ trace.op = "line"
    /\ trace.line = HeartbeatLine(2)
    /\ trace.send = "written"
    /\ wire_out = <<<<"2", ";", "2", "5", "5", ";", "3", ";",
                      "0", ";", "1", "3", ";", "\n">>>>
    /\ PhasesOf(2) = {"requested"}
    /\ PhasesOf(1) = {"unstarted"}

(* C13: a line that is identical to the line received just before it and   *)
(* arrives at most 1 second after it is dropped before it is decoded: no   *)
(* event is offered, no handler runs, the OTA manager is not called and    *)
(* nothing is sent.                                                        *)
C13_RepeatWithinWindowDropped ==
    [][(/\ trace'.op = "line"
        /\ trace'.line # <<>>
        /\ trace'.line = last_message
        /\ now - last_time <= 1)
       => /\ trace'.outcome = "duplicate"
          /\ trace'.event = None
          /\ trace'.handler = "none"
          /\ trace'.send = "none"
          /\ wire_out' = <<>>
          /\ call' = NoCall
          /\ registry' = registry
          /\ firmware_store' = firmware_store]_vars

(* C13 witness: the heartbeat of the Requested node 1 has been dropped as  *)
(* a duplicate, one second into the run, so that no reboot was sent.       *)
C13_Witness ==
    /\ trace.op = "line"
    /\ trace.outcome = "duplicate"
    /\ trace.line = HeartbeatLine(1)
    /\ PhasesOf(1) = {"requested"}
    /\ now = 1
    /\ wire_out = <<>>

(* C14: dedup drops nothing but an immediate repeat inside the window: a   *)
(* (non-blank) line that differs from the line received just before it,    *)
(* or arrives more than 1 second after it, is not dropped as a duplicate,  *)
(* and when it has six fields of which the first five are integers it is   *)
(* decoded and dispatched: the event is offered and its handler runs.      *)
C14_OnlyImmediateRepeatsDropped ==
    [][(/\ trace'.op = "line"
        /\ trace'.line # <<>>
        /\ \/ trace'.line # last_message
           \/ now - last_time > 1)
       => \A parts \in {py_split(trace'.line, ";")} :
             /\ trace'.outcome # "duplicate"
             /\ (/\ Len(parts) >= 6
                 /\ \A i \in 1..5 : ~py_int_raises(parts[i]))
                => /\ trace'.outcome = "dispatched"
                   /\ trace'.event # None
                   /\ trace'.event[1] = py_int(parts[1])
                   /\ trace'.handler = handler_of(py_int(parts[2]), py_int(parts[3]))]_vars

(* C14 witness: within the first second node 1 went from Requested to      *)
(* Started by a config request and a block request, and the config request *)
(* that came again after the block request has been dispatched (A, B, A).  *)
C14_Witness ==
    /\ trace.op = "line"
    /\ trace.outcome = "dispatched"
    /\ trace.line = ConfigRequestLine(1)
    /\ call.op = "config_request"
    /\ call.fw_id = None
    /\ PhasesOf(1) = {"started"}
    /\ now = 0

(* the rest of s after its first k characters ";" *)
RECURSIVE AfterDelimiters(_, _)
AfterDelimiters(s, k) ==
    IF k = 0 THEN s
    ELSE AfterDelimiters(SubSeq(s, py_find(s, ";") + 1, Len(s)), k - 1)

(* C15 as stated: decoding a line yields the integer fields and, as        *)
(* payload, everything after the 5th ";", further ";" included, so that    *)
(* the line is the encoding of the decoded fields again.                   *)
C15_PayloadIsRestOfLine ==
    [][(/\ trace'.op = "line"
        /\ trace'.outcome = "dispatched")
       => \A parts \in {py_split(trace'.line, ";")} :
             /\ trace'.event[1] = py_int(parts[1])
             /\ trace'.event[2] = py_int(parts[2])
             /\ trace'.event[3] = py_int(parts[3])
             /\ trace'.event[4] = py_int(parts[5])
             /\ trace'.event[5] = AfterDelimiters(trace'.line, 5)
             /\ trace'.line = format_message(trace'.event[1], trace'.event[2],
                                             trace'.event[3], py_int(parts[4]),
                                             trace'.event[4], trace'.event[5])]_vars

(* C16: a line with fewer than 6 fields, or with a field among the first   *)
(* five that is empty or holds a character that is no digit, sign or       *)
(* blank, is rejected: no event is offered, no handler runs, nothing is    *)
(* passed to the send or written, and registry and catalog stay as they    *)
(* are.                                                                    *)
C16_MalformedLineRejected ==
    [][trace'.op = "line" =>
          \A parts \in {py_split(trace'.line, ";")} :
             (\/ Len(parts) < 6
              \/ \E i \in 1..5 :
                    \/ parts[i] = <<>>
                    \/ \E k \in 1..Len(parts[i]) :
                          parts[i][k] \notin {"0", "1", "2", "3", "4", "5", "6", "7",
                                              "8", "9", "+", "-"} \cup Whitespace)
             => /\ trace'.event = None
                /\ trace'.handler = "none"
                /\ trace'.send = "none"
                /\ wire_out' = <<>>
                /\ call' = NoCall
                /\ registry' = registry
                /\ firmware_store' = firmware_store]_vars

(* C16 witness: a line whose node id is no number has been rejected while  *)
(* node 1 is in the middle of an update.                                   *)
C16_Witness ==
    /\ trace.op = "line"
    /\ trace.outcome = "exit"
    /\ Len(py_split(trace.line, ";")) = 6
    /\ trace.event = None
    /\ PhasesOf(1) = {"unstarted"}

(* C17 as stated: no protocol-level error ends the receive loop: after a   *)
(* short line, a line with a non-integer field, an OTA request that gets   *)
(* no response or a failed send the listener is still in its loop, ready   *)
(* for the next line.                                                      *)
C17_ListenerSurvivesErrors ==
    [][(/\ trace'.op = "line"
        /\ \/ trace'.outcome \in {"short", "exit"}
           \/ trace'.send = "failed"
           \/ trace'.handler = "handle_stream_message" /\ ret' = None)
       => pc' \in {"loop", "lines"}]_vars

(* C18: a zero-byte read or a read error leaves the listener without a     *)
(* socket and in a sleep of 5 seconds, every time; the sleep ends at the   *)
(* head of the loop, where a running listener without a socket goes on to  *)
(* connect; and a listener that sleeps is connected again later, unless it *)
(* is told to stop, when the gateway accepts in the end.                   *)
C18_ReconnectAfterReadFailure ==
    /\ [][/\ (pc = "recv" /\ pc' # "recv" /\ pc' \notin {"loop", "lines"})
             => /\ pc' = "sleep"
                /\ gateway_socket' = None
                /\ sleep_s' = 5
          /\ (pc = "sleep" /\ pc' # "sleep") => pc' = "loop"
          /\ (pc = "loop" /\ pc' # "loop" /\ gateway_socket = None /\ gateway_running)
             => /\ pc' = "connect"
                /\ gateway_socket' = Socket("unconnected")]_vars
    /\ [](pc = "sleep" => <>(pc = "connect" \/ ~gateway_running))
    /\ [](pc = "sleep" =>
             <>(gateway_socket = Socket("connected") \/ ~gateway_running))

(* C18 witness: a connection over which a line had been received was lost  *)
(* and the listener, still told to run, sleeps 5 seconds without a socket. *)
C18_Witness ==
    /\ pc = "sleep"
    /\ sleep_s = 5
    /\ gateway_socket = None
    /\ gateway_running
    /\ last_message # <<>>

(* C19 as stated: a send that fails on the write closes the socket and     *)
(* leaves the manager disconnected, as a read failure does.                *)
C19_WriteFailureDisconnects ==
    [][(/\ gateway_socket = Socket("connected")
        /\ trace'.send = "failed")
       => gateway_socket' = None]_vars

(* C20: a message passed to send_message_to_gateway while the socket is    *)
(* missing or not connected is dropped, the call returns without raising,  *)
(* and nothing is written; whatever a step writes is the message passed to *)
(* the send in that same step, over a connected socket, so that nothing    *)
(* submitted earlier is written after a reconnect.                         *)
C20_SendWhileDisconnectedDropped ==
    [][/\ (trace'.msg # <<>> /\ gateway_socket # Socket("connected"))
          => /\ trace'.send \in {"dropped", "failed"}
             /\ gateway_socket = None => trace'.send = "dropped"
             /\ wire_out' = <<>>
       /\ wire_out' # <<>>
          => /\ wire_out' = <<trace'.msg \o <<"\n">>>>
             /\ trace'.send = "written"
             /\ gateway_socket = Socket("connected")]_vars

(* C20 witness: the operator's discovery request was dropped while the     *)
(* listener sleeps between two connections.                                *)
C20_Witness ==
    /\ trace.op = "nodes_discover"
    /\ trace.send = "dropped"
    /\ wire_out = <<>>
    /\ gateway_socket = None
    /\ pc = "sleep"
    /\ last_message # <<>>

(* C21 as stated: a reboot or custom message the operator issues while no   *)
(* connection to the gateway is established (none, a connect in progress,  *)
(* a connect that timed out, a closed socket) is refused: nothing is       *)
(* passed to the send.                                                     *)
C21_RefusedUnlessConnected ==
    (/\ trace.op \in {"reboot_node", "send_custom_message"}
     /\ gateway_socket # Socket("connected"))
    => trace.msg = <<>>

(* C22: every new, well-formed line whose command is Stream goes to         *)
(* handle_stream_message and to no other handler; a config request calls   *)
(* the engine's config handler and a block request its block handler; when *)
(* the engine returned a payload, one line node;255;4;0;sub-type;payload   *)
(* (sub-type ConfigResponse, resp. BlockResponse) is passed to the send in *)
(* the step that processed the request, and when it returned none, nothing *)
(* is passed to the send and nothing is written.                           *)
C22_StreamRoutedToEngine ==
    [][trace'.op = "line" =>
          \A parts \in {py_split(trace'.line, ";")} :
             (/\ trace'.line # <<>>
              /\ isnew(trace'.line)
              /\ Len(parts) >= 6
              /\ \A i \in 1..5 : ~py_int_raises(parts[i])
              /\ py_int(parts[3]) = C_STREAM)
             => \A nid \in {py_int(parts[1])}, typ \in {py_int(parts[5])} :
                  /\ trace'.outcome = "dispatched"
                  /\ trace'.handler = "handle_stream_message"
                  /\ typ = ST_FIRMWARE_CONFIG_REQUEST
                        => call'.op = "config_request" /\ call'.node_id = nid
                  /\ typ = ST_FIRMWARE_REQUEST
                        => call'.op = "block_request" /\ call'.node_id = nid
                  /\ typ \notin {ST_FIRMWARE_CONFIG_REQUEST, ST_FIRMWARE_REQUEST}
                        => call' = NoCall
                  /\ IF IsPayload(ret') /\ ret' # <<>>
                     THEN /\ trace'.msg =
                                py_str(nid) \o <<";", "2", "5", "5", ";">>
                                   \o py_str(C_STREAM) \o <<";", "0", ";">>
                                   \o py_str(IF typ = ST_FIRMWARE_CONFIG_REQUEST
                                             THEN ST_FIRMWARE_CONFIG_RESPONSE
                                             ELSE ST_FIRMWARE_RESPONSE)
                                   \o <<";">> \o ret'
                          /\ trace'.send \in {"written", "failed", "dropped"}
                          /\ wire_out' \in {<<>>, <<trace'.msg \o <<"\n">>>>}
                     ELSE /\ trace'.msg = <<>>
                          /\ trace'.send = "none"
                          /\ wire_out' = <<>>]_vars

(* C22 witness: the config request of node 1, which was Requested, has     *)
(* been answered with a config response written to the gateway.            *)
C22_Witness ==
    /\ trace.op = "line"
    /\ trace.line = ConfigRequestLine(1)
    /\ trace.handler = "handle_stream_message"
    /\ call.op = "config_request"
    /\ IsPayload(ret)
    /\ trace.msg = <<"1", ";", "2", "5", "5", ";", "4", ";", "0", ";", "1", ";">> \o ret
    /\ trace.send = "written"
    /\ wire_out = <<trace.msg \o <<"\n">>>>
    /\ PhasesOf(1) = {"unstarted"}

(* C23: no event queue ever holds more than 100 events; a decoded line     *)
(* offers one event to each queue, which a queue that holds 100 drops; the *)
(* line is processed all the same (its handler runs, the config request of *)
(* a Requested node is answered) and the listener goes on to the next line *)
(* or the next read.                                                       *)
C23_QueuesBoundedAndNeverBlock ==
    /\ [](\A qsize \in {message_queue, sensor_queue, node_queue} : qsize \in 0..100)
    /\ [][trace'.op = "line" =>
            /\ (trace'.line # <<>> /\ isnew(trace'.line)) => trace'.outcome = "dispatched"
            /\ trace'.outcome = "dispatched" =>
                 /\ message_queue' = IF message_queue = 100 THEN 100 ELSE message_queue + 1
                 /\ sensor_queue' = IF sensor_queue = 100 THEN 100 ELSE sensor_queue + 1
                 /\ node_queue' = IF node_queue = 100 THEN 100 ELSE node_queue + 1
                 /\ trace'.handler \in {"handle_stream_message", "on_internal_message"}
                 /\ (trace'.line = ConfigRequestLine(1) /\ PhasesOf(1) = {"requested"})
                      => /\ trace'.msg # <<>>
                         /\ trace'.send \in {"written", "failed"}
                         /\ PhasesOfNext(1) = {"unstarted"}
                 /\ pc' \in {"loop", "lines"}
            /\ trace'.outcome # "dispatched" => UNCHANGED queues]_vars

(* C23 witness: all three queues were full when the config request of node *)
(* 1 came in; its event was dropped, and the config response was written.  *)
C23_Witness ==
    /\ trace.op = "line"
    /\ trace.line = ConfigRequestLine(1)
    /\ trace.full = {"message_queue", "sensor_queue", "node_queue"}
    /\ message_queue = 100 /\ sensor_queue = 100 /\ node_queue = 100
    /\ trace.send = "written"
    /\ PhasesOf(1) = {"unstarted"}
    /\ pc = "loop"

(* C24: every image of the catalog has a data length that is a multiple   *)
(* of 128 and a block count of a 16th of that length, whatever the length  *)
(* of the file it was loaded from.                                         *)
C24_ImagesArePadded ==
    \A fw_id \in DOMAIN firmware_store :
        /\ Len(firmware_store[fw_id].data) % 128 = 0
        /\ firmware_store[fw_id].blocks * 16 = Len(firmware_store[fw_id].data)

(* C24 witness: the catalog holds the image of a file of 129 bytes, one    *)
(* byte more than a page: two pages, 16 blocks, padded with 0xFF.          *)
C24_Witness ==
    /\ call.op = "load_firmware"
    /\ call.fw_path = 129
    /\ <<3, 2>> \in DOMAIN firmware_store
    /\ Len(firmware_store[<<3, 2>>].data) = 256
    /\ firmware_store[<<3, 2>>].blocks = 16
    /\ firmware_store[<<3, 2>>].data[129] = RawImage(129, 3)[129]
    /\ firmware_store[<<3, 2>>].data[130] = 255

(* C25 as stated: with firmware <<3, 2>> loaded from 320 bytes the catalog *)
(* reports 20 blocks, and the config response for node 7 decodes to        *)
(* <<3, 2, 20, crc>>.                                                      *)
C25_ScenarioA_20Blocks ==
    (/\ <<3, 2>> \in DOMAIN firmware_store
     /\ Len(firmware_store[<<3, 2>>].data) >= 320
     /\ SubSeq(firmware_store[<<3, 2>>].data, 1, 320) = RawImage(320, 3))
    => /\ firmware_store[<<3, 2>>].blocks = 20
       /\ (call.op = "config_request" /\ call.node_id = 7 /\ IsPayload(ret))
            => fw_hex_to_int(ret, 4) = <<3, 2, 20, firmware_store[<<3, 2>>].crc>>

(* C25, amended: firmware <<3, 2>> loaded from 320 bytes is padded to 384   *)
(* bytes, the next multiple of 128, and the catalog reports 24 blocks;     *)
(* when node 7 has been scheduled for <<3, 2>> and asks for the firmware   *)
(* config, the response decodes to <<3, 2, 24, crc of the 384 bytes>>.     *)
C25_ScenarioA_24Blocks ==
    /\ [](\A fw_id \in DOMAIN firmware_store \cap {<<3, 2>>} :
            (/\ Len(firmware_store[fw_id].data) >= 320
             /\ SubSeq(firmware_store[fw_id].data, 1, 320) = RawImage(320, 3))
            => /\ firmware_store[fw_id].blocks = 24
               /\ firmware_store[fw_id].data
                      = RawImage(320, 3) \o [i \in 1..64 |-> 255])
    /\ [][\A fw_id \in DOMAIN firmware_store \cap {<<3, 2>>} :
            (/\ Len(firmware_store[fw_id].data) >= 320
             /\ SubSeq(firmware_store[fw_id].data, 1, 320) = RawImage(320, 3)
             /\ dict_get(requested_nodes, 7) = fw_id
             /\ call'.op = "config_request"
             /\ call'.node_id = 7)
            => /\ IsPayload(ret')
               /\ fw_hex_to_int(ret', 4)
                     = <<3, 2, 24, compute_crc16(firmware_store[fw_id].data)>>]_vars

(* C25 witness: node 7, scheduled for <<3, 2>> loaded from 320 bytes, has  *)
(* been sent the config response with 24 blocks.                           *)
C25_Witness ==
    /\ call.op = "config_request"
    /\ call.node_id = 7
    /\ IsPayload(ret)
    /\ fw_hex_to_int(ret, 4)[3] = 24
    /\ <<3, 2>> \in DOMAIN firmware_store
    /\ Len(firmware_store[<<3, 2>>].data) = 384
    /\ SubSeq(firmware_store[<<3, 2>>].data, 1, 320) = RawImage(320, 3)
    /\ dict_get(unstarted_nodes, 7) = <<3, 2>>

(* C26 as stated: the operator's request_update and a request handler of   *)
(* the listener exclude each other, so that when both have returned the    *)
(* registry is what the two calls give in some serial order; in particular *)
(* the node is in at most one phase.                                       *)
C26_RegistryCallsExcludeEachOther ==
    (frames.operator.pc = "idle" /\ frames.listener.pc = "idle")
    => Cardinality(PhasesOf(1)) <= 1

(* C27 as stated: once a received line has ended in the fatal error, the   *)
(* process is gone: no line is processed and nothing is written to the     *)
(* gateway any more, whatever the operator asks for.                       *)
C27_FatalErrorEndsProcess ==
    [][pc = "exited" => (pc' = "exited" /\ trace'.op # "line" /\ wire_out' = <<>>)]_vars

(* C28: a config request whose payload is not the hex of exactly 5 words   *)
(* of 16 bits (20 hex digits), and a block request whose payload is not    *)
(* the hex of exactly 3 words (12 hex digits), returns no response and     *)
(* changes neither the registry nor the catalog, whatever the phase of the *)
(* node.                                                                   *)
C28_MalformedOtaFrameDropped ==
    [][\A digits \in {IF call'.op = "config_request" THEN 20 ELSE 12} :
          (/\ call'.op \in {"config_request", "block_request"}
           /\ \/ Len(call'.payload) # digits
              \/ \E i \in 1..Len(call'.payload) :
                    call'.payload[i] \notin
                        {"0", "1", "2", "3", "4", "5", "6", "7", "8", "9",
                         "a", "b", "c", "d", "e", "f",
                         "A", "B", "C", "D", "E", "F"})
          => /\ ret' = None
             /\ UNCHANGED <<registry, firmware_store>>]_vars

(* C28 witness: a block request with a payload of 5 words has been dropped *)
(* for an Unstarted node, which a block request of 3 words would have      *)
(* moved to Started.                                                       *)
C28_Witness ==
    /\ call.op = "block_request"
    /\ Len(call.payload) = 20
    /\ ret = None
    /\ PhasesOf(call.node_id) = {"unstarted"}
    /\ unstarted_nodes[call.node_id] \in DOMAIN firmware_store

(* C29: once gateway_running is cleared the listener thread leaves its     *)
(* loop: whatever call it is in (connect, recv, sleep) returns, the next   *)
(* while test ends the loop, and the socket, if there is one, is closed;   *)
(* a thread that has left the loop does nothing more.  The lines of one    *)
(* read are a finite computation: a thread held for ever between two of    *)
(* them is no run of the program.                                          *)
C29_StopSignalEndsListener ==
    /\ [](pc = "stopped" => /\ ~gateway_running
                            /\ gateway_socket \in {None, Socket("closed")})
    /\ [][/\ (pc = "loop" /\ ~gateway_running /\ pc' # pc) => pc' = "stopped"
          /\ pc = "stopped" => (pc' = "stopped"
                                  /\ trace'.op \notin {"line", "recv", "listener"})
          /\ (pc \in {"connect", "recv", "sleep"} /\ pc' # pc)
               => pc' \in {"loop", "recv", "lines", "sleep"}]_vars
    /\ \/ <>[](pc = "lines")
       \/ [](~gateway_running => <>(pc = "stopped"))

(* C29 witness: the listener has left its loop after the stop and has      *)
(* closed the socket, with a line still processed before.                  *)
C29_Witness ==
    /\ pc = "stopped"
    /\ ~gateway_running
    /\ gateway_socket = Socket("closed")
    /\ last_message # <<>>
    /\ trace.op = "listener"

(* C30 as stated: the payload of a block response for a block index below *)
(* the block count is 64 hex characters long.                              *)
C30_BlockPayload64Chars ==
    [][\A req \in {IF call'.op = "block_request" /\ IsPayload(ret')
                     THEN fw_hex_to_int(call'.payload, 3) ELSE <<0, 0, 0>>} :
          (/\ call'.op = "block_request"
           /\ IsPayload(ret')
           /\ req[3] < firmware_store[<<req[1], req[2]>>].blocks)
          => Len(ret') = 64]_vars

(* C30, amended: the payload of a block response for a block index below   *)
(* the block count is 44 hex characters long: 12 hex characters for the    *)
(* header of three 16-bit words and 32 hex characters for the 16 bytes of  *)
(* the block.                                                              *)
C30_BlockPayload44Chars ==
    [][\A req \in {IF call'.op = "block_request" /\ IsPayload(ret')
                     THEN fw_hex_to_int(call'.payload, 3) ELSE <<0, 0, 0>>} :
          (/\ call'.op = "block_request"
           /\ IsPayload(ret')
           /\ req[3] < firmware_store[<<req[1], req[2]>>].blocks)
          => /\ Len(ret') = 44
             /\ \A i \in 1..Len(ret') :
                   ret'[i] \in {"0", "1", "2", "3", "4", "5", "6", "7", "8", "9",
                               "a", "b", "c", "d", "e", "f"}
             /\ Len(unhexlify(SubSeq(ret', 1, 12))) = 6
             /\ Len(unhexlify(SubSeq(ret', 13, Len(ret')))) = 16]_vars

(* C30 witness: block 0 of the 8-block image has been returned in a        *)
(* payload of 44 characters.                                               *)
C30_Witness ==
    /\ call.op = "block_request"
    /\ IsPayload(ret)
    /\ fw_hex_to_int(call.payload, 3)[3] = 0
    /\ <<fw_hex_to_int(call.payload, 3)[1], fw_hex_to_int(call.payload, 3)[2]>>
          \in DOMAIN firmware_store
    /\ firmware_store[<<fw_hex_to_int(call.payload, 3)[1],
                        fw_hex_to_int(call.payload, 3)[2]>>].blocks = 8
    /\ Len(ret) = 44
    /\ SubSeq(ret, 1, 12) = SubSeq(call.payload, 1, 12)

(* C31: for a node in Unstarted or Started, a block request that declares   *)
(* a firmware id (t, v) of the catalog and a block index i at or beyond    *)
(* the block count of that image is neither rejected nor clamped: the      *)
(* response is the three words t, v, i followed by the hex of the bytes of *)
(* the image from 16*i on, fewer than 16 of them, and the node ends in     *)
(* Started.                                                                *)
C31_OutOfRangeBlockStillAnswered ==
    [][(/\ call'.op = "block_request"
        /\ ~fw_hex_to_int_raises(call'.payload, 3)
        /\ \/ call'.node_id \in DOMAIN unstarted_nodes
           \/ call'.node_id \in DOMAIN started_nodes)
       => \A t \in {fw_hex_to_int(call'.payload, 3)[1]},
             v \in {fw_hex_to_int(call'.payload, 3)[2]},
             i \in {fw_hex_to_int(call'.payload, 3)[3]} :
             (/\ <<t, v>> \in DOMAIN firmware_store
              /\ i >= firmware_store[<<t, v>>].blocks)
             => /\ IsPayload(ret')
                /\ SubSeq(ret', 1, 12) = fw_int_to_hex(<<t, v, i>>)
                /\ SubSeq(ret', 13, Len(ret')) =
                       hexlify(SubSeq(firmware_store[<<t, v>>].data, 16 * i + 1,
                                      Len(firmware_store[<<t, v>>].data)))
                /\ Len(ret') < 12 + 2 * FIRMWARE_BLOCK_SIZE
                /\ PhasesOfNext(call'.node_id) = {"started"}]_vars

(* C31 witness: a node has asked for block 8 of the 8-block image, got the *)
(* bare 12-character header and is Started.                                *)
C31_Witness ==
    /\ call.op = "block_request"
    /\ call.fw_id # None
    /\ ~fw_hex_to_int_raises(call.payload, 3)
    /\ fw_hex_to_int(call.payload, 3)[3] = 8
    /\ IsPayload(ret)
    /\ ret = fw_int_to_hex(<<fw_hex_to_int(call.payload, 3)[1],
                             fw_hex_to_int(call.payload, 3)[2], 8>>)
    /\ PhasesOf(call.node_id) = {"started"}

(* C32: the outcome of a config request with a well-formed 5-word payload  *)
(* is a function of the node, the registry and the catalog alone; the five *)
(* reported words do not enter it.  With fw_id the target of the node in   *)
(* requested_nodes or else in unstarted_nodes: no target, or a target that *)
(* is not in the catalog, gives no response and no change; otherwise the   *)
(* response is the words (type, version, blocks, crc) of the target, the   *)
(* node leaves requested_nodes and is Unstarted with that target.  Two     *)
(* payloads run from the same state for the same node meet the same        *)
(* right-hand side, so response and Registry are identical.                *)
C32_ReportedValuesIgnored ==
    [][(/\ call'.op = "config_request"
        /\ ~fw_hex_to_int_raises(call'.payload, 5))
       => \A n \in {call'.node_id} :
          \A fw_id \in {py_or(dict_get(requested_nodes, n),
                              dict_get(unstarted_nodes, n))} :
             /\ firmware_store' = firmware_store
             /\ started_nodes' = started_nodes
             /\ IF fw_id = None \/ fw_id \notin DOMAIN firmware_store
                THEN /\ ret' = None
                     /\ requested_nodes' = requested_nodes
                     /\ unstarted_nodes' = unstarted_nodes
                ELSE /\ ret' = fw_int_to_hex(<<fw_id[1], fw_id[2],
                                               firmware_store[fw_id].blocks,
                                               firmware_store[fw_id].crc>>)
                     /\ requested_nodes' = dict_pop(requested_nodes, n)
                     /\ unstarted_nodes' = dict_set(unstarted_nodes, n, fw_id)]_vars

(* C32 witness: a node that reports firmware type 258, version 1, 16      *)
(* blocks has been answered with its target of type 1, the answer a node   *)
(* that reports type 1, version 1, 8 blocks gets.                          *)
C32_Witness ==
    /\ call.op = "config_request"
    /\ ~fw_hex_to_int_raises(call.payload, 5)
    /\ fw_hex_to_int(call.payload, 5)[1] = 258
    /\ fw_hex_to_int(call.payload, 5)[3] = 16
    /\ call.fw_id = <<1, 1>>
    /\ IsPayload(ret)
    /\ fw_hex_to_int(ret, 4)[1] = 1
    /\ PhasesOf(call.node_id) = {"unstarted"}

(***************************************************************************)
(* The framing specification: the listener thread on reads that end        *)
(* anywhere in a line.  The gateway sends the heartbeat of node 1 and a    *)
(* text value of node 1 whose payload is the character U+00E9, two bytes   *)
(* in UTF-8; a read returns a whole line, the first four bytes of the      *)
(* heartbeat, the rest of it, the value line up to the first byte of its   *)
(* last character, or the rest of that line.  The connection can be lost   *)
(* and made again at any time.  MaxBuffer bounds the characters waiting in *)
(* the buffer for their newline.                                           *)
(***************************************************************************)
MaxBuffer == 20

SplitPieces ==
    LET h == HeartbeatLine(1)
        v == format_message(1, 3, C_SET, 0, 47, <<"\\xc3", "\\xa9">>)
    IN  { h \o <<"\n">>,
          SubSeq(h, 1, 4),
          SubSeq(h, 5, Len(h)) \o <<"\n">>,
          v \o <<"\n">>,
          SubSeq(v, 1, Len(v) - 1),
          SubSeq(v, Len(v), Len(v)) \o <<"\n">> }

ListenerRecvPiece ==
    \E outcome \in {"data", "timeout", "eof", "error"}, data \in SplitPieces :
        /\ Len(buffer) + Len(data) <= MaxBuffer
        /\ listener_recv(outcome, data)

NextSplit ==
    \/ listener_loop
    \/ ListenerConnect
    \/ ListenerRecvPiece
    \/ ListenerLines
    \/ listener_sleep

SpecSplit == InitGw /\ [][NextSplit]_vars

(* C33: while a connection is up the lines handed to the decoder are the   *)
(* received bytes split on newline, however the bytes are divided among    *)
(* reads: the buffer after a read is what it would be had the same bytes   *)
(* arrived in two reads cut at any place; a line step hands over the       *)
(* buffer up to its first newline (process_gateway_message strips it) and  *)
(* keeps the rest; and the listener reads again only when the buffer holds *)
(* no newline, so what is held back is the bytes after the last newline.   *)
C33_LinesAreStreamSplitOnNewline ==
    [][/\ trace'.op = "recv"
          => \A k \in 0..Len(trace'.line) :
                buffer' = buffer
                            \o utf8_decode_ignore(SubSeq(trace'.line, 1, k))
                            \o utf8_decode_ignore(SubSeq(trace'.line, k + 1,
                                                         Len(trace'.line)))
       /\ pc = "lines"
          => /\ py_find(buffer, "\n") > 0
             /\ trace'.op = "line"
             /\ trace'.line = py_strip(SubSeq(buffer, 1, py_find(buffer, "\n") - 1))
             /\ buffer' = SubSeq(buffer, py_find(buffer, "\n") + 1, Len(buffer))
       /\ pc \in {"loop", "connect", "recv", "sleep"}
          => py_find(buffer, "\n") = 0]_vars

(* C34: in every reachable state the target of every node in Requested or  *)
(* Unstarted is a firmware id of the Catalog, also after delete_firmware,   *)
(* so that the config request of a scheduled node is never left unanswered *)
(* for want of the image.                                                  *)
C34_ScheduledTargetInCatalog ==
    /\ \A n \in DOMAIN requested_nodes :
           requested_nodes[n] \in DOMAIN firmware_store
    /\ \A n \in DOMAIN unstarted_nodes :
           unstarted_nodes[n] \in DOMAIN firmware_store

(***************************************************************************)
(* The transfer specification: the manager from the state in which node 1  *)
(* is in the middle of a transfer of firmware <<1, 1>>: the operator has   *)
(* loaded the 100-byte file as <<1, 1>> and scheduled node 1, and the      *)
(* config request of node 1 has been answered with the 8 blocks and the    *)
(* crc of that image.  The operator loads and deletes firmware and the     *)
(* nodes ask for blocks; no update is scheduled and no config request      *)
(* arrives, so the transfer of node 1 stays the one announced.             *)
(***************************************************************************)
InitTransfer ==
    /\ firmware_store = dict_set(<<>>, <<1, 1>>, PreparedFile[2])
    /\ requested_nodes = <<>>
    /\ unstarted_nodes = dict_set(<<>>, 1, <<1, 1>>)
    /\ started_nodes = <<>>
    /\ call = Call("config_request", 1, None, None, 0,
                   fw_int_to_hex(<<1, 1, 8, 0, 3>>), <<1, 1>>)
    /\ ret = fw_int_to_hex(<<1, 1, PreparedFile[2].blocks, PreparedFile[2].crc>>)
    /\ message_queue = 0
    /\ sensor_queue = 0
    /\ node_queue = 0
    /\ gateway_init
    /\ frames = IdleFrames

NextTransfer ==
    \/ LoadFirmware
    \/ DeleteFirmware
    \/ BlockRequest

SpecTransfer == InitTransfer /\ [][NextTransfer]_vars

(* C35: within the transfer of node 1 announced by the config response     *)
(* for <<1, 1>>, every block request of node 1 for <<1, 1>> is answered,    *)
(* and with the bytes of the image whose blocks and crc were announced,    *)
(* whatever the operator has loaded or deleted since.                      *)
C35_BlocksFromAnnouncedImage ==
    [][(/\ call'.op = "block_request"
        /\ call'.node_id = 1
        /\ ~fw_hex_to_int_raises(call'.payload, 3))
       => \A req \in {fw_hex_to_int(call'.payload, 3)} :
             (req[1] = 1 /\ req[2] = 1)
             => /\ IsPayload(ret')
                /\ SubSeq(ret', 13, Len(ret')) =
                       hexlify(py_slice(PreparedFile[2].data, 16 * req[3],
                                        16 * req[3] + 16))]_vars

(* C36: dedup comes before the routing of every command class, Stream      *)
(* included: a config request or block request line that is identical to   *)
(* the line received just before it and arrives at most 1 second after it  *)
(* is dropped, although its node is in a phase in which the request would  *)
(* be served: the OTA manager is not called, the Registry stays as it is   *)
(* and no response is sent.                                                *)
C36_DedupCoversStream ==
    [][(/\ trace'.op = "line"
        /\ trace'.line = last_message
        /\ now - last_time <= 1
        /\ Len(py_split(trace'.line, ";")) >= 6)
       => \A parts \in {py_split(trace'.line, ";")} :
             (/\ parts[3] = py_str(C_STREAM)
              /\ ~py_int_raises(parts[1])
              /\ \/ /\ parts[5] = py_str(ST_FIRMWARE_CONFIG_REQUEST)
                    /\ PhasesOf(py_int(parts[1])) \cap {"requested", "unstarted"} # {}
                 \/ /\ parts[5] = py_str(ST_FIRMWARE_REQUEST)
                    /\ PhasesOf(py_int(parts[1])) \cap {"unstarted", "started"} # {})
             => /\ trace'.outcome = "duplicate"
                /\ trace'.handler = "none"
                /\ call' = NoCall
                /\ ret' = None
                /\ registry' = registry
                /\ trace'.msg = <<>>
                /\ trace'.send = "none"
                /\ wire_out' = <<>>]_vars

(* C36 witness: node 1 is Started after its block request was served, and  *)
(* the same block request, received again within the second, has been      *)
(* dropped as a duplicate with nothing sent.                               *)
C36_Witness ==
    /\ trace.op = "line"
    /\ trace.outcome = "duplicate"
    /\ trace.line = format_message(1, 255, C_STREAM, 0, ST_FIRMWARE_REQUEST,
                                   fw_int_to_hex(<<1, 1, 0>>))
    /\ PhasesOf(1) = {"started"}
    /\ call = NoCall
    /\ wire_out = <<>>

(* C37: a line handed to the decoder holds bytes of one connection only:   *)
(* the bytes of an unfinished line that are in the buffer when the         *)
(* connection is lost are discarded, so that the buffer is empty when the  *)
(* next connection is made and its first bytes start a line.               *)
C37_BufferDiscardedAtReconnect ==
    [][(pc = "connect" /\ pc' = "recv") => buffer' = <<>>]_vars

(***************************************************************************)
(* The send specification: a send of the operator's thread and the loop of *)
(* the listener thread, one statement that reads or writes gateway_socket  *)
(* per step.  send_message_to_gateway reads the global twice, in the test  *)
(* of line 1869 and in the call of line 1871, and holds no lock; the       *)
(* listener closes the socket and clears the global in two statements.     *)
(* Socket objects are told apart by the number the listener created them   *)
(* in, the third component of the value; the frame of the listener holds   *)
(* the number of sockets created so far (arg), the frame of the operator   *)
(* the message and the socket the test of line 1869 saw.  MaxSockets       *)
(* bounds the sockets the listener creates.                                *)
(***************************************************************************)
MaxSockets == 2

send_message_to_gateway_step(message, send_ok) ==
    LET f == frames.operator IN
    /\ UNCHANGED <<firmware_store, registry, call, ret,
                   gateway_socket, gateway_running, listener_state>>
    /\ CASE f.pc = "idle" ->
             (* line 1869: if gateway_socket: *)
             IF truthy(gateway_socket)
             THEN /\ frames' = [frames EXCEPT !.operator =
                                   Frame("1871", 0, <<message, gateway_socket>>, None)]
                  /\ trace' = NoTrace("send_message_to_gateway")
                  /\ wire_out' = <<>>
             ELSE /\ UNCHANGED frames
                  /\ trace' = Trace("send_message_to_gateway", <<>>, "none", None,
                                    "none", message, "dropped")
                  /\ wire_out' = <<>>
         [] f.pc = "1871" ->
             (* line 1871: gateway_socket.sendall(...); the AttributeError   *)
             (* of None and the OSError of a socket that is not connected    *)
             (* are caught in line 1875                                      *)
             LET send == IF /\ gateway_socket # None
                            /\ SubSeq(gateway_socket, 1, 2) = Socket("connected")
                            /\ send_ok
                         THEN "written" ELSE "failed"
             IN  /\ frames' = [frames EXCEPT !.operator = IdleFrames.operator]
                 /\ trace' = Trace("send_message_to_gateway", <<>>, "none", None,
                                   "none", f.arg[1], send)
                 /\ wire_out' = Written(f.arg[1], send)

gateway_listener_step(outcome) ==
    LET f == frames.listener
        goto(line) == [frames EXCEPT !.listener.pc = line]
    IN
    /\ trace' = NoTrace("listener")
    /\ wire_out' = <<>>
    /\ UNCHANGED <<firmware_store, registry, call, ret, gateway_running, listener_state>>
    /\ CASE f.pc = "1941" ->
             (* while gateway_running: if gateway_socket is None: socket() *)
             /\ outcome = "ok"
             /\ IF gateway_socket = None
                THEN /\ f.arg < MaxSockets
                     /\ gateway_socket' = Socket("unconnected") \o <<f.arg + 1>>
                     /\ frames' = [frames EXCEPT !.listener =
                                      Frame("1947", 0, f.arg + 1, None)]
                ELSE /\ UNCHANGED gateway_socket
                     /\ frames' = goto("1951")
         [] f.pc = "1947" ->
             (* connect() *)
             /\ outcome \in {"ok", "timeout", "error"}
             /\ gateway_socket' = IF outcome = "ok"
                                  THEN Socket("connected") \o <<f.arg>>
                                  ELSE gateway_socket
             /\ frames' = goto(CASE outcome = "ok" -> "1951"
                                 [] outcome = "timeout" -> "1941"
                                 [] outcome = "error" -> "1970")
         [] f.pc = "1951" ->
             (* recv(1024): nothing within the timeout, zero bytes, an error *)
             /\ outcome \in {"timeout", "eof", "error"}
             /\ UNCHANGED gateway_socket
             /\ frames' = goto(CASE outcome = "timeout" -> "1941"
                                 [] outcome = "eof" -> "1954"
                                 [] outcome = "error" -> "1970")
         [] f.pc \in {"1954", "1970"} ->
             (* gateway_socket.close() *)
             /\ outcome = "ok"
             /\ gateway_socket' = Socket("closed") \o <<f.arg>>
             /\ frames' = goto(IF f.pc = "1954" THEN "1955" ELSE "1975")
         [] f.pc \in {"1955", "1975"} ->
             (* gateway_socket = None *)
             /\ outcome = "ok"
             /\ gateway_socket' = None
             /\ frames' = goto("1956")
         [] f.pc = "1956" ->
             (* time.sleep(5) *)
             /\ outcome = "ok"
             /\ UNCHANGED gateway_socket
             /\ frames' = goto("1941")

InitSend ==
    /\ firmware_store = dict_set(<<>>, <<1, 1>>, PreparedFile[2])
    /\ requested_nodes = <<>>
    /\ unstarted_nodes = <<>>
    /\ started_nodes = <<>>
    /\ call = NoCall
    /\ ret = None
    /\ message_queue = maxsize
    /\ sensor_queue = maxsize
    /\ node_queue = maxsize
    /\ gateway_init
    /\ frames = [IdleFrames EXCEPT !.listener = Frame("1941", 0, 0, None)]

OperatorSendStep ==
    \E send_ok \in BOOLEAN :
        send_message_to_gateway_step(send_reboot_request(1, FALSE), send_ok)

ListenerStep ==
    \E outcome \in {"ok", "timeout", "eof", "error"} : gateway_listener_step(outcome)

NextSend ==
    \/ OperatorSendStep
    \/ ListenerStep

SpecSend == InitSend /\ [][NextSend]_vars

(* C38: a send of the operator that races with the listener closing and    *)
(* clearing the socket does not raise (its outcome is written, a logged    *)
(* failure, or dropped), writes the whole message or nothing, writes it    *)
(* only to the socket that was current when the send began, and leaves the *)
(* global and the listener as they are.                                    *)
C38_SendWrittenToItsSocketOrDropped ==
    [][(frames.operator.pc = "1871" /\ frames'.operator.pc = "idle")
       => /\ trace'.op = "send_message_to_gateway"
          /\ trace'.send \in {"written", "failed"}
          /\ trace'.send = "written"
             => /\ gateway_socket[3] = frames.operator.arg[2][3]
                /\ wire_out' = <<frames.operator.arg[1] \o <<"\n">>>>
          /\ trace'.send # "written" => wire_out' = <<>>
          /\ gateway_socket' = gateway_socket
          /\ frames'.listener = frames.listener
          /\ pc' = pc /\ buffer' = buffer]_vars

(* C39: padding is minimal: the data of an image loaded from a file of len *)
(* bytes has the smallest multiple of 128 that is not less than len as its *)
(* length, and a file whose length is a multiple of 128 already is stored  *)
(* as it was read, with len / 16 blocks.                                   *)
C39_PaddingIsMinimal ==
    (call.op = "load_firmware" /\ ret = True)
    => \A len \in {call.fw_path} :
       \A fw_id \in DOMAIN firmware_store \cap {<<3, 2>>} :
          /\ Len(firmware_store[fw_id].data) = ((len + 127) \div 128) * 128
          /\ len % 128 = 0
             => /\ firmware_store[fw_id].data = RawImage(len, 3)
                /\ firmware_store[fw_id].blocks = len \div 16

====
